---- MODULE Spec2Model ----
(***************************************************************************)
(* A model of ycm-core-rs: the candidate ranking engine (core/character,   *)
(* core/candidate, core/query), the completer dispatcher (completer/mod,   *)
(* completer/filename, completer/ultisnips) and the LSP transport          *)
(* (completer/lsp/transport, completer/lsp/client).                        *)
(*                                                                         *)
(* Texts are sequences of Unicode scalar values (integers).                *)
(***************************************************************************)
EXTENDS Integers, Sequences, FiniteSets, TLC

VARIABLES
    \* ranking engine: one filter_and_sort_candidates call under construction
    query,          \* the query text
    candidates,     \* Vec<Candidate> texts handed to filter_and_sort_candidates
    max_candidates, \* the max_candidates argument of the last call
    results,        \* what the last call returned (Vec<QueryResult>)
    generic,        \* what filter_and_sort_generic_candidates returned for it
    rankPc,         \* "building" | "sorted"
    \* dispatcher: GenericCompleters behind ServerState
    completers,     \* kinds of the completers in GenericCompleters.completers
    snippets,       \* per completer: UltisnipsCompleter.candidates
    config,         \* CompletionConfig (max_candidates)
    request,        \* Option: the last completion request with what the file system showed
    response,       \* the last response of GenericCompleters::compute_candidates
    visited,        \* history: Option, ultisnips_snippets of the latest BufferVisit event carrying some
    \* LSP transport and client
    slab,           \* response_channels: slot -> [gen, sender]
    callPc,         \* per caller: position inside LspTransport::call
    callId,         \* per caller: Option, the slab key its request carries
    callRes,        \* per caller: Option, the Output sent on its oneshot channel
    clientQ,        \* client_requests mpsc channel
    serverSeen,     \* request ids written to stream_out, in order
    unknownIds,     \* ids logged as "Got response from lsp with unknown id"
    streamIn,       \* frames the server wrote that the reader has not consumed
    streamInOpen,   \* FALSE once the server closed its stdout
    streamOutOpen,  \* FALSE once the server closed its stdin
    reader,         \* "running" | "stopped"
    writer,         \* "running" | "stopped"
    serverRequests, \* server_requests mpsc channel (notifications, server calls)
    serial,         \* number of responses the server has written
    shutdownPc,     \* position inside LspClient::shutdown
    childExited,    \* the child process has exited
    \* ServerState: request handlers around Mutex<GenericCompleters>
    mutex,          \* 0 when free, else the handler holding the MutexGuard
    poisoned,       \* the Mutex is poisoned: a holder panicked
    hKind,          \* per handler: "completions" | "event_notification" | "get_messages"
    hFails,         \* per handler: 0, or the position of the completer that panics on its request
    hPc,            \* per handler: "start" | "locked" | "sleeping" | "done" | "panicked"
    hIdx,           \* per handler: completers visited so far inside the locked call
    hSeen,          \* per handler: the cache versions compute_candidates read
    cacheVer,       \* per completer: the event handler that last wrote its cache (0: none)
    \* one call of a function of the request, identifier or trigger modules
    call,           \* the arguments
    ret             \* <<>> before the call, <<outcome>> after it

rankVars == <<query, candidates, max_candidates, results, generic, rankPc>>
dispVars == <<completers, snippets, config, request, response, visited>>
lspVars  == <<slab, callPc, callId, callRes, clientQ, serverSeen, unknownIds, streamIn,
              streamInOpen, streamOutOpen, reader, writer, serverRequests,
              serial, shutdownPc, childExited>>
srvVars  == <<mutex, poisoned, hKind, hFails, hPc, hIdx, hSeen, cacheVer>>
fnVars   == <<call, ret>>
vars == <<rankVars, dispVars, lspVars, srvVars, fnVars>>

None == "None"

(***************************************************************************)
(* Sequence helpers                                                        *)
(***************************************************************************)
RECURSIVE ConcatAll(_)
ConcatAll(ss) == IF ss = <<>> THEN <<>> ELSE Head(ss) \o ConcatAll(Tail(ss))

Swap(v, i, j) == [v EXCEPT ![i] = v[j], ![j] = v[i]]

Take(v, n) == SubSeq(v, 1, IF n < Len(v) THEN n ELSE Len(v))

\* Ord and lexicographic comparison of Vec<char>: "Less" | "Equal" | "Greater"
IntCmp(a, b) == IF a < b THEN "Less" ELSE IF a > b THEN "Greater" ELSE "Equal"

BoolCmp(a, b) == IntCmp(IF a THEN 1 ELSE 0, IF b THEN 1 ELSE 0)

Reverse(o) == IF o = "Less" THEN "Greater" ELSE IF o = "Greater" THEN "Less" ELSE "Equal"

RECURSIVE VecCmp(_, _)
VecCmp(x, y) ==
    IF x = <<>> THEN (IF y = <<>> THEN "Equal" ELSE "Less")
    ELSE IF y = <<>> THEN "Greater"
    ELSE IF Head(x) # Head(y) THEN IntCmp(Head(x), Head(y))
    ELSE VecCmp(Tail(x), Tail(y))

(***************************************************************************)
(* Unicode tables, restricted to ASCII, e-acute (233), E-acute (201) and   *)
(* the combining acute accent (769)                                        *)
(***************************************************************************)
char_is_uppercase(c) == c \in 65..90 \/ c = 201
char_is_lowercase(c) == c \in 97..122 \/ c = 233
char_to_lowercase(c) == IF c \in 65..90 THEN <<c + 32>> ELSE IF c = 201 THEN <<233>> ELSE <<c>>
char_to_uppercase(c) == IF c \in 97..122 THEN <<c - 32>> ELSE IF c = 233 THEN <<201>> ELSE <<c>>
char_is_ascii_punctuation(c) == c \in (33..47) \cup (58..64) \cup (91..96) \cup (123..126)
char_is_whitespace(c) == c \in (9..13) \cup {32}
char_is_alphabetic(c) == c \in (65..90) \cup (97..122) \cup {201, 233}
\* break_property(c) in {Before, After, BeforeAndAfter, Space}: SP is the space,
\* BA the tab and the vertical bar; letters are AL and the combining acute is CM
break_class_excluded(c) == c \in {9, 32, 124}
\* canonical decomposition of one scalar value
char_nfd(c) == IF c = 233 THEN <<101, 769>> ELSE IF c = 201 THEN <<69, 769>> ELSE <<c>>
\* Grapheme_Extend
char_is_extend(c) == c = 769

nfd(s) == ConcatAll([i \in 1..Len(s) |-> char_nfd(s[i])])

\* length of the extended grapheme cluster that starts at s[i]
RECURSIVE ClusterLen(_, _)
ClusterLen(s, i) ==
    IF i + 1 <= Len(s) /\ char_is_extend(s[i + 1]) THEN 1 + ClusterLen(s, i + 1) ELSE 1

\* str::graphemes(true): the text cut into extended grapheme clusters
RECURSIVE graphemes(_)
graphemes(s) ==
    IF s = <<>> THEN <<>>
    ELSE LET n == ClusterLen(s, 1)
         IN  <<SubSeq(s, 1, n)>> \o graphemes(SubSeq(s, n + 1, Len(s)))

(***************************************************************************)
(* core/character.rs                                                       *)
(***************************************************************************)
\* is_base starts false and the loop only ever assigns false to it
Character_new(character) ==
    LET n == nfd(character)
    IN  [ normal       |-> n,
          base         |-> ConcatAll([i \in 1..Len(n) |->
                              IF break_class_excluded(n[i]) THEN <<>>
                              ELSE char_to_lowercase(n[i])]),
          folded_case  |-> ConcatAll([i \in 1..Len(n) |-> char_to_lowercase(n[i])]),
          swapped_case |-> ConcatAll([i \in 1..Len(n) |->
                              IF char_is_lowercase(n[i]) THEN char_to_uppercase(n[i])
                              ELSE char_to_lowercase(n[i])]),
          is_base        |-> FALSE,
          is_uppercase   |-> \E i \in 1..Len(n) : char_is_uppercase(n[i]),
          is_punctuation |-> \E i \in 1..Len(n) :
                                char_is_ascii_punctuation(n[i]) \/ char_is_whitespace(n[i]),
          is_letter      |-> \E i \in 1..Len(n) : char_is_alphabetic(n[i]) ]

smartcaseeq(self, other) ==
    \/ (self.is_base /\ self.base = other.base /\ (~self.is_uppercase \/ other.is_uppercase))
    \/ (~self.is_uppercase /\ self.folded_case = other.folded_case)
    \/ self.normal = other.normal

\* impl PartialEq for Character
Character_eq(self, other) == self.base = other.base

(***************************************************************************)
(* core/candidate.rs and core/query.rs                                     *)
(***************************************************************************)
\* characters.windows(2).filter_map(..): the characters at word boundaries
RECURSIVE Windows(_, _)
Windows(chars, i) ==
    IF i > Len(chars) THEN <<>>
    ELSE LET prev == chars[i - 1]
             current == chars[i]
         IN  (IF (prev.is_punctuation /\ ~current.is_punctuation)
                    \/ (~prev.is_uppercase /\ current.is_uppercase)
              THEN <<current>> ELSE <<>>) \o Windows(chars, i + 1)

Candidate_new(s) ==
    LET g == graphemes(s)
        characters == [i \in 1..Len(g) |-> Character_new(g[i])]
        wb == Windows(characters, 2)
    IN  [ characters |-> characters,
          word_boundary_chars |->
              IF characters # <<>> /\ ~characters[1].is_punctuation
              THEN <<characters[1]>> \o wb ELSE wb,
          text_is_lowercase |-> \A i \in 1..Len(characters) : ~characters[i].is_uppercase,
          case_swapped |-> ConcatAll([i \in 1..Len(characters) |-> characters[i].swapped_case]),
          text |-> s ]

Word_new(text) ==
    LET g == graphemes(text)
    IN  [ characters |-> [i \in 1..Len(g) |-> Character_new(g[i])], text |-> text ]

EMPTY_CANDIDATE == Candidate_new(<<>>)
EMPTY_WORD == Word_new(<<>>)

\* lcs::LcsTable::new(a, b).longest_common_subsequence().len(), items compared
\* with Character's PartialEq
RECURSIVE LcsLen(_, _)
LcsLen(a, b) ==
    IF a = <<>> \/ b = <<>> THEN 0
    ELSE IF Character_eq(Head(a), Head(b)) THEN 1 + LcsLen(Tail(a), Tail(b))
    ELSE LET x == LcsLen(Tail(a), b)
             y == LcsLen(a, Tail(b))
         IN  IF x >= y THEN x ELSE y

\* ref stands for the borrow &'a Candidate: the position of the candidate in the
\* vector it is borrowed from (0: none, filled in by filter_and_sort_candidates)
QueryResult_new(is_subsequence, query_is_prefix, char_match_index_sum, candidate, q) ==
    LET empty == candidate.characters = <<>> \/ q.characters = <<>>
    IN  [ is_subsequence |-> is_subsequence,
          query_is_prefix |-> query_is_prefix,
          first_char_is_same |->
              IF empty THEN FALSE
              ELSE Character_eq(candidate.characters[1], q.characters[1]),
          char_match_index_sum |-> char_match_index_sum,
          num_wb_matches |->
              IF empty THEN 0 ELSE LcsLen(candidate.word_boundary_chars, q.characters),
          candidate |-> candidate,
          query |-> q,
          ref |-> 0 ]

QueryResult_default ==
    [ is_subsequence |-> FALSE, query_is_prefix |-> FALSE, first_char_is_same |-> FALSE,
      char_match_index_sum |-> 0, num_wb_matches |-> 0,
      candidate |-> EMPTY_CANDIDATE, query |-> EMPTY_WORD, ref |-> 0 ]

\* the loop of matches_query: i is the 1-based candidate position (the code's
\* index is i - 1), qi the cursor (qi > Len means last_q is None)
RECURSIVE MatchScan(_, _, _, _, _, _)
MatchScan(self, q, i, qi, match_index_sum, is_prefix) ==
    IF i > Len(self.characters)
    THEN IF qi > Len(q.characters)
         THEN QueryResult_new(TRUE, is_prefix, match_index_sum, self, q)
         ELSE QueryResult_default
    ELSE IF qi > Len(q.characters)
         THEN QueryResult_new(TRUE, is_prefix, match_index_sum, self, q)
         ELSE IF smartcaseeq(q.characters[qi], self.characters[i])
              THEN MatchScan(self, q, i + 1, qi + 1, match_index_sum + (i - 1), is_prefix)
              ELSE MatchScan(self, q, i + 1, qi, match_index_sum, FALSE)

\* a scan that gives up when the candidate ends, without the check after the loop
RECURSIVE MatchScanNoFinalCheck(_, _, _, _, _, _)
MatchScanNoFinalCheck(self, q, i, qi, match_index_sum, is_prefix) ==
    IF i > Len(self.characters)
    THEN QueryResult_default
    ELSE IF qi > Len(q.characters)
         THEN QueryResult_new(TRUE, is_prefix, match_index_sum, self, q)
         ELSE IF smartcaseeq(q.characters[qi], self.characters[i])
              THEN MatchScanNoFinalCheck(self, q, i + 1, qi + 1, match_index_sum + (i - 1), is_prefix)
              ELSE MatchScanNoFinalCheck(self, q, i + 1, qi, match_index_sum, FALSE)

\* a scan whose index sum does not start at zero
matches_query_sum_from_one(self, q) == MatchScan(self, q, 1, 1, 1, TRUE)

matches_query_no_final_check(self, q) == MatchScanNoFinalCheck(self, q, 1, 1, 0, TRUE)

matches_query(self, q) == MatchScan(self, q, 1, 1, 0, TRUE)

\* the tail of partial_cmp from query_is_prefix on, shared by the variants below
cmp_tail(self, other) ==
    LET wbLen(r) == Len(r.candidate.word_boundary_chars)
        wbm == IntCmp(self.num_wb_matches, other.num_wb_matches)
        wbc == IntCmp(wbLen(self), wbLen(other))
        prefix == BoolCmp(self.query_is_prefix, other.query_is_prefix)
        sum == IntCmp(self.char_match_index_sum, other.char_match_index_sum)
        len == IntCmp(Len(self.candidate.characters), Len(other.candidate.characters))
        lower == BoolCmp(self.candidate.text_is_lowercase, other.candidate.text_is_lowercase)
    IN  IF prefix # "Equal" THEN Reverse(prefix)
        ELSE IF wbm # "Equal" THEN Reverse(wbm)
        ELSE IF wbc # "Equal" THEN wbc
        ELSE IF sum # "Equal" THEN sum
        ELSE IF len # "Equal" THEN len
        ELSE IF lower # "Equal" THEN Reverse(lower)
        ELSE VecCmp(self.candidate.case_swapped, other.candidate.case_swapped)

\* partial_cmp with the word-boundary stage applied only when self covers the
\* query with word boundaries (other's coverage is not consulted)
partial_cmp_self_only(self, other) ==
    LET wbLen(r) == Len(r.candidate.word_boundary_chars)
        first == BoolCmp(self.first_char_is_same, other.first_char_is_same)
        wbm == IntCmp(self.num_wb_matches, other.num_wb_matches)
        wbc == IntCmp(wbLen(self), wbLen(other))
        full == self.num_wb_matches = Len(self.query.characters)
    IN  IF self.query.text # <<>>
        THEN IF first # "Equal" THEN Reverse(first)
             ELSE IF full /\ wbm # "Equal" THEN Reverse(wbm)
             ELSE IF full /\ wbc # "Equal" THEN wbc
             ELSE cmp_tail(self, other)
        ELSE VecCmp(self.candidate.case_swapped, other.candidate.case_swapped)

\* partial_cmp without the word-boundary stage
partial_cmp_no_wb_stage(self, other) ==
    LET first == BoolCmp(self.first_char_is_same, other.first_char_is_same)
    IN  IF self.query.text # <<>>
        THEN IF first # "Equal" THEN Reverse(first) ELSE cmp_tail(self, other)
        ELSE VecCmp(self.candidate.case_swapped, other.candidate.case_swapped)

\* impl PartialOrd for QueryResult: "Less" ranks self before other
partial_cmp(self, other) ==
    LET wbLen(r) == Len(r.candidate.word_boundary_chars)
        first == BoolCmp(self.first_char_is_same, other.first_char_is_same)
        wbm == IntCmp(self.num_wb_matches, other.num_wb_matches)
        wbc == IntCmp(wbLen(self), wbLen(other))
        prefix == BoolCmp(self.query_is_prefix, other.query_is_prefix)
        sum == IntCmp(self.char_match_index_sum, other.char_match_index_sum)
        len == IntCmp(Len(self.candidate.characters), Len(other.candidate.characters))
        lower == BoolCmp(self.candidate.text_is_lowercase, other.candidate.text_is_lowercase)
        last == VecCmp(self.candidate.case_swapped, other.candidate.case_swapped)
        full == \/ self.num_wb_matches = Len(self.query.characters)
                \/ other.num_wb_matches = Len(other.query.characters)
    IN  IF self.query.text # <<>>
        THEN IF first # "Equal" THEN Reverse(first)
             ELSE IF full /\ wbm # "Equal" THEN Reverse(wbm)
             ELSE IF full /\ wbc # "Equal" THEN wbc
             ELSE IF prefix # "Equal" THEN Reverse(prefix)
             ELSE IF wbm # "Equal" THEN Reverse(wbm)
             ELSE IF wbc # "Equal" THEN wbc
             ELSE IF sum # "Equal" THEN sum
             ELSE IF len # "Equal" THEN len
             ELSE IF lower # "Equal" THEN Reverse(lower)
             ELSE last
        ELSE last

\* the closure handed to partial_sort
is_less(a, b) == partial_cmp(a, b) = "Less"

(***************************************************************************)
(* results.partial_sort(last, cmp): heap selection of the smallest `last`  *)
(* elements into v[0..last), sorted; positions are 0-based as in the code  *)
(***************************************************************************)
RECURSIVE adjust_heap(_, _, _)
adjust_heap(v, hole, len) ==
    LET l == 2 * hole + 1
        r == 2 * hole + 2
        big1 == IF l < len /\ is_less(v[hole + 1], v[l + 1]) THEN l ELSE hole
        big  == IF r < len /\ is_less(v[big1 + 1], v[r + 1]) THEN r ELSE big1
    IN  IF big = hole THEN v ELSE adjust_heap(Swap(v, hole + 1, big + 1), big, len)

RECURSIVE make_heap_from(_, _, _)
make_heap_from(v, i, len) ==
    IF i < 0 THEN v ELSE make_heap_from(adjust_heap(v, i, len), i - 1, len)

make_heap(v, len) == make_heap_from(v, (len \div 2) - 1, len)

RECURSIVE heap_select(_, _, _)
heap_select(v, i, last) ==
    IF i >= Len(v) THEN v
    ELSE IF is_less(v[i + 1], v[1])
         THEN heap_select(adjust_heap(Swap(v, 1, i + 1), 0, last), i + 1, last)
         ELSE heap_select(v, i + 1, last)

RECURSIVE sort_heap(_, _)
sort_heap(v, end) ==
    IF end <= 1 THEN v
    ELSE sort_heap(adjust_heap(Swap(v, 1, end), 0, end - 1), end - 1)

\* a partial sort that skips the selection pass over v[last..]
partial_sort_no_select(v, last) == sort_heap(make_heap(v, last), last)

partial_sort(v, last) == sort_heap(heap_select(make_heap(v, last), last, last), last)

\* a filter that keeps every result, matching or not
FilterKeepAll(rs) == rs

\* .filter(|r| r.is_subsequence)
FilterSubsequence(rs) == SelectSeq(rs, LAMBDA r : r.is_subsequence)

filter_and_sort_candidates(cands, q, max) ==
    LET all == [i \in 1..Len(cands) |-> [matches_query(cands[i], q) EXCEPT !.ref = i]]
        res == FilterSubsequence(all)
        k == IF max < Len(res) THEN max ELSE Len(res)
    IN  partial_sort(res, k)

\* filter_and_sort_generic_candidates(objects, query, max_candidates, key): the
\* objects of the ranked keys, in rank order, truncated to max_candidates;
\* keys[i] is key(objects[i])
filter_and_sort_generic_candidates(objects, keys, q, max) ==
    LET cands == [i \in 1..Len(objects) |-> Candidate_new(keys[i])]
        ranked == filter_and_sort_candidates(cands, Word_new(q), max)
    IN  [i \in 1..(IF max < Len(ranked) THEN max ELSE Len(ranked)) |-> objects[ranked[i].ref]]

(***************************************************************************)
(* Ranking engine: inputs and the call                                     *)
(***************************************************************************)
MaxCandidates == 3

T_empty == <<>>
T_ab  == <<97, 98>>
T_Ab  == <<65, 98>>
T_acb == <<97, 99, 98>>
T_bab == <<98, 97, 98>>
T_BA  == <<66, 65>>
T_A_B == <<65, 32, 44, 32, 66>>
T_B   == <<66>>

\* the candidates of tests::test_filter_and_sort, and the empty candidate
CandidatePool == {T_empty, T_ab, T_Ab, T_acb, T_bab, T_BA, T_A_B}
QueryPool == {T_empty, T_ab, T_B}
\* usize::MAX of the test stands as a cap no candidate list reaches
MaxCandidatesPool == {0, 1, 2, 1000}

\* the Vec<Candidate> the caller builds
CandidateVec == [i \in 1..Len(candidates) |-> Candidate_new(candidates[i])]

\* the objects and keys handed to the generic funnel: one object per text
ObjectVec == [i \in 1..Len(candidates) |-> [insertion_text |-> candidates[i], id |-> i]]
KeyVec == [i \in 1..Len(candidates) |-> ObjectVec[i].insertion_text]

DispIdle ==
    /\ completers = <<>>
    /\ snippets = <<>>
    /\ config = [max_candidates |-> 0, blacklist |-> {}, min_num_chars |-> 0]
    /\ request = <<>>
    /\ response = <<>>
    /\ visited = <<>>

LspIdle ==
    /\ slab = <<>>
    /\ callPc = <<>>
    /\ callId = <<>>
    /\ callRes = <<>>
    /\ clientQ = <<>>
    /\ serverSeen = <<>>
    /\ unknownIds = {}
    /\ streamIn = <<>>
    /\ streamInOpen = TRUE
    /\ streamOutOpen = TRUE
    /\ reader = "running"
    /\ writer = "running"
    /\ serverRequests = <<>>
    /\ serial = 0
    /\ shutdownPc = "idle"
    /\ childExited = FALSE

SrvIdle ==
    /\ mutex = 0
    /\ poisoned = FALSE
    /\ hKind = <<>>
    /\ hFails = <<>>
    /\ hPc = <<>>
    /\ hIdx = <<>>
    /\ hSeen = <<>>
    /\ cacheVer = <<>>

FnIdle ==
    /\ call = <<>>
    /\ ret = <<>>

RankIdle ==
    /\ query = <<>>
    /\ candidates = <<>>
    /\ max_candidates = 0
    /\ results = <<>>
    /\ generic = <<>>
    /\ rankPc = "building"

RankInit ==
    /\ query \in QueryPool
    /\ candidates = <<>>
    /\ max_candidates = 0
    /\ results = <<>>
    /\ generic = <<>>
    /\ rankPc = "building"
    /\ DispIdle
    /\ LspIdle
    /\ SrvIdle
    /\ FnIdle

\* the caller pushes one more candidate
PushCandidate(t) ==
    /\ rankPc = "building"
    /\ Len(candidates) < MaxCandidates
    /\ candidates' = Append(candidates, t)
    /\ UNCHANGED <<query, max_candidates, results, generic, rankPc, dispVars, lspVars, srvVars, fnVars>>

\* filter_and_sort_candidates and the generic funnel on the same input
FilterAndSort(max) ==
    /\ rankPc = "building"
    /\ max_candidates' = max
    /\ results' = filter_and_sort_candidates(CandidateVec, Word_new(query), max)
    /\ generic' = filter_and_sort_generic_candidates(ObjectVec, KeyVec, query, max)
    /\ rankPc' = "sorted"
    /\ UNCHANGED <<query, candidates, dispVars, lspVars, srvVars, fnVars>>

RankNext ==
    \/ \E t \in CandidatePool : PushCandidate(t)
    \/ \E max \in MaxCandidatesPool : FilterAndSort(max)

RankSpec == RankInit /\ [][RankNext]_vars

(***************************************************************************)
(* Ranking engine: properties                                              *)
(***************************************************************************)
TheQuery == Word_new(query)

\* every candidate of the vector scored against the query, borrow recorded
Scored ==
    LET cv == CandidateVec
        q == TheQuery
    IN  [i \in 1..Len(candidates) |-> [matches_query(cv[i], q) EXCEPT !.ref = i]]

\* the graphemes of q can be embedded in those of c, in order, under smartcaseeq
Embeds(q, c) ==
    \E f \in [1..Len(q) -> 1..Len(c)] :
        /\ \A i, j \in 1..Len(q) : i < j => f[i] < f[j]
        /\ \A i \in 1..Len(q) : smartcaseeq(q[i], c[f[i]])

\* the positions of the candidates the query is a subsequence of
Matching ==
    LET cv == CandidateVec
        q == TheQuery
    IN  {i \in 1..Len(candidates) : Embeds(q.characters, cv[i].characters)}

\* the scored matches, in input order
Matches ==
    LET m == Matching
    IN  SelectSeq(Scored, LAMBDA r : r.ref \in m)

\* C2: matches_query reports a subsequence exactly when the query's graphemes
\* embed in the candidate's graphemes in order under smartcaseeq (the greedy scan
\* misses no embedding; the empty query embeds in every candidate)
C2_SubsequenceIffEmbedding ==
    LET S == Scored
        m == Matching
    IN  \A i \in 1..Len(candidates) : S[i].is_subsequence <=> i \in m

\* "acb" matched by "ab" through a skipped grapheme, "BA" rejected, and the empty
\* candidate matched by the empty query in another position of the same space
C2_Witness ==
    /\ rankPc = "sorted"
    /\ query = T_ab
    /\ LET S == Scored
       IN  \E i, j \in 1..Len(candidates) :
              /\ candidates[i] = T_acb /\ S[i].is_subsequence
              /\ S[i].char_match_index_sum = 2
              /\ candidates[j] = T_BA /\ ~S[j].is_subsequence

\* x is lexicographically before y
LexBefore(x, y) ==
    \E p \in 1..(Len(y)) :
        /\ \A j \in 1..(p - 1) : j <= Len(x) /\ x[j] = y[j]
        /\ (p > Len(x) \/ (p <= Len(x) /\ x[p] < y[p]))
        /\ p - 1 <= Len(x)

\* the criteria of the comparator as numbers, smaller ranking first; stage says
\* whether the word-boundary stage applies to the pair
CriteriaOf(r, stage) ==
    << IF r.first_char_is_same THEN 0 ELSE 1,
       IF stage THEN 0 - r.num_wb_matches ELSE 0,
       IF stage THEN Len(r.candidate.word_boundary_chars) ELSE 0,
       IF r.query_is_prefix THEN 0 ELSE 1,
       0 - r.num_wb_matches,
       Len(r.candidate.word_boundary_chars),
       r.char_match_index_sum,
       Len(r.candidate.characters),
       IF r.candidate.text_is_lowercase THEN 0 ELSE 1 >>

\* a ranks before b by the first differing criterion
RanksBefore(a, b) ==
    LET n == Len(graphemes(query))
        stage == a.num_wb_matches = n \/ b.num_wb_matches = n
        ka == CriteriaOf(a, stage)
        kb == CriteriaOf(b, stage)
    IN  IF n = 0 THEN LexBefore(a.candidate.case_swapped, b.candidate.case_swapped)
        ELSE \/ \E p \in 1..Len(ka) : ka[p] < kb[p] /\ \A j \in 1..(p - 1) : ka[j] = kb[j]
             \/ ka = kb /\ LexBefore(a.candidate.case_swapped, b.candidate.case_swapped)

C4_StrictWeakOrder ==
    LET M == Matches
        cmp == [i \in 1..Len(M) |-> [j \in 1..Len(M) |-> partial_cmp(M[i], M[j])]]
    IN  \A i, j, k \in 1..Len(M) :
            /\ cmp[i][i] = "Equal"
            /\ cmp[i][j] = Reverse(cmp[j][i])
            /\ (cmp[i][j] = "Less" /\ cmp[j][k] = "Less") => cmp[i][k] = "Less"
            /\ (cmp[i][j] = "Equal" /\ cmp[j][k] = "Equal") => cmp[i][k] = "Equal"

\* three matches, one covering the query with word boundaries without being a
\* prefix match and one a prefix match without covering it
C4_Witness ==
    /\ rankPc = "sorted"
    /\ LET M == Matches
           n == Len(graphemes(query))
       IN  /\ Len(M) = 3
           /\ \E i, j \in 1..Len(M) :
                  /\ M[i].num_wb_matches = n
                  /\ ~M[i].query_is_prefix
                  /\ M[j].num_wb_matches < n
                  /\ M[j].query_is_prefix
                  /\ M[i].first_char_is_same = M[j].first_char_is_same

\* k of the last call
TopK ==
    LET n == Cardinality(Matching)
    IN  IF max_candidates < n THEN max_candidates ELSE n

\* C5: filter_and_sort_candidates returns a permutation of exactly the matching
\* candidates; its first k = min(max_candidates, matches) entries are in
\* non-decreasing comparator order and no later entry ranks before one of them
C5_FilterAndSort ==
    rankPc = "sorted" =>
        LET m == Matching
            S == Scored
            k == TopK
        IN  /\ Len(results) = Cardinality(m)
            /\ {results[i].ref : i \in 1..Len(results)} = m
            /\ \A i \in 1..Len(results) : results[i] = S[results[i].ref]
            /\ \A i, j \in 1..Len(results) :
                  (i < j /\ j <= k) => partial_cmp(results[i], results[j]) # "Greater"
            /\ \A i, j \in 1..Len(results) :
                  (i <= k /\ j > k) => partial_cmp(results[j], results[i]) # "Less"

\* a call that drops a non-match, keeps a duplicate and leaves a tail after k
C5_Witness ==
    /\ rankPc = "sorted"
    /\ Len(candidates) = 3
    /\ Len(results) = 2
    /\ TopK = 1
    /\ results[1].candidate.text = results[2].candidate.text
    /\ results[1].ref # results[2].ref

\* C6: the generic funnel returns at most max_candidates objects, each an input
\* object whose key matches the query, in comparator order of their keys, and
\* no omitted matching object ranks strictly before a returned one
C6_GenericFunnel ==
    rankPc = "sorted" =>
        LET ms == Matching
            S == Scored
        IN  /\ Len(generic) <= max_candidates
            /\ \A i \in 1..Len(generic) :
                  /\ generic[i].id \in ms
                  /\ generic[i] = ObjectVec[generic[i].id]
            /\ \A i, j \in 1..Len(generic) : i < j => generic[i].id # generic[j].id
            /\ \A i, j \in 1..Len(generic) :
                  i < j => partial_cmp(S[generic[i].id], S[generic[j].id]) # "Greater"
            /\ \A m \in ms :
                  (\A i \in 1..Len(generic) : generic[i].id # m) =>
                      \A i \in 1..Len(generic) :
                          partial_cmp(S[m], S[generic[i].id]) # "Less"

\* a funnel call that truncates: three matching objects, two returned
C6_Witness ==
    /\ rankPc = "sorted"
    /\ max_candidates = 2
    /\ Len(generic) = 2
    /\ LET ms == Matching
       IN  /\ Cardinality(ms) = 3
           /\ \E m \in ms : \A i \in 1..Len(generic) : generic[i].id # m

(***************************************************************************)
(* completer/ultisnips.rs, completer/filename.rs, completer/mod.rs,        *)
(* server.rs: the dispatcher                                               *)
(***************************************************************************)
MaxCompleters == 2

\* "<snip> "
SnipPrefix == <<60, 115, 110, 105, 112, 62, 32>>
D_one == <<49>>
D_two == <<50>>

\* Event
EventNames == {"FileReadyToParse", "BufferVisit"}

Snip(t, d) == [trigger |-> t, description |-> d]

\* Option<T>: <<>> is None, <<x>> is Some(x)
Some(x) == <<x>>
IsSome(o) == o # <<>>
Unwrap(o) == o[1]

\* EventNotification.ultisnips_snippets: None or a snippet list
SnippetLists ==
    { <<>>,
      Some(<<Snip(T_acb, D_one), Snip(T_ab, D_two)>>),
      Some(<<Snip(T_BA, D_one), Snip(T_Ab, D_two), Snip(T_ab, D_one)>>) }

\* what std::fs::read_dir shows for the directory search_path found
DirEntry(n, t) == [name |-> n, file_type |-> t]

\* io::Result<ReadDir>: err, or the entries
Listings ==
    { [err |-> TRUE, entries |-> <<>>],
      [err |-> FALSE, entries |-> <<DirEntry(T_BA, "file")>>],
      [err |-> FALSE, entries |->
          <<DirEntry(T_acb, "dir"), DirEntry(T_ab, "file"), DirEntry(T_BA, "other")>>] }

FiletypeLists == {<<"python", "cpp">>, <<"python">>}
\* CompletionConfig
Configs ==
    { [max_candidates |-> 1, blacklist |-> {}, min_num_chars |-> 2],
      [max_candidates |-> 2, blacklist |-> {"cpp"}, min_num_chars |-> 1] }

\* GenericCompleters.completers: a list of UltisnipsCompleter
CompleterLists ==
    {[i \in 1..n |-> "ultisnips"] : n \in 1..MaxCompleters}

\* a completion request: the derived query, the file's filetypes, and what the
\* file system shows during the request (both search_path calls, the listing)
Requests ==
    [ query : {T_ab, T_empty}, filetypes : FiletypeLists,
      search_path_1 : {None, "dir"}, search_path_2 : {None, "dir"}, listing : Listings ]

Events == [event_name : EventNames, ultisnips_snippets : SnippetLists]

InsertionTexts(objects) == [i \in 1..Len(objects) |-> objects[i].insertion_text]

\* an on_event that extends the cache with the event's snippets
UltisnipsCompleter_on_event_appending(cands, event) ==
    IF event.event_name = "BufferVisit" /\ IsSome(event.ultisnips_snippets)
    THEN LET s == Unwrap(event.ultisnips_snippets)
         IN  cands \o [i \in 1..Len(s) |->
                [ insertion_text |-> s[i].trigger,
                  menu_text |-> Some(SnipPrefix \o s[i].description),
                  extra_menu_info |-> <<>> ]]
    ELSE cands

\* UltisnipsCompleter::on_event
UltisnipsCompleter_on_event(cands, event) ==
    IF event.event_name = "BufferVisit" /\ IsSome(event.ultisnips_snippets)
    THEN LET s == Unwrap(event.ultisnips_snippets)
         IN  [i \in 1..Len(s) |->
                [ insertion_text |-> s[i].trigger,
                  menu_text |-> Some(SnipPrefix \o s[i].description),
                  extra_menu_info |-> <<>> ]]
    ELSE cands

\* UltisnipsCompleter::compute_candidates
UltisnipsCompleter_compute_candidates(cands, req) ==
    filter_and_sort_generic_candidates(cands, InsertionTexts(cands), req.query,
                                       config.max_candidates)

\* FilenameCompleter::current_filetype_completion_disabled
current_filetype_completion_disabled(filetypes) ==
    "*" \in config.blacklist \/ \E i \in 1..Len(filetypes) : filetypes[i] \in config.blacklist

\* FileType::to_string
FileType_to_string(t) ==
    IF t = "dir" THEN "[Dir]" ELSE IF t = "file" THEN "[File]" ELSE "[File&Dir]"

\* FilenameCompleter::generate_path_candidates
generate_path_candidates(listing) ==
    IF listing.err THEN <<>>
    ELSE [i \in 1..Len(listing.entries) |->
            [ insertion_text |-> listing.entries[i].name,
              menu_text |-> <<>>,
              extra_menu_info |-> Some(FileType_to_string(listing.entries[i].file_type)) ]]

\* FilenameCompleter::should_use_now
FilenameCompleter_should_use_now(req) ==
    ~current_filetype_completion_disabled(req.filetypes) /\ req.search_path_1 # None

\* FilenameCompleter::compute_candidates
FilenameCompleter_compute_candidates(req) ==
    IF ~FilenameCompleter_should_use_now(req) THEN <<>>
    ELSE IF req.search_path_2 # None
    THEN LET c == generate_path_candidates(req.listing)
         IN  filter_and_sort_generic_candidates(c, InsertionTexts(c), req.query,
                                                config.max_candidates)
    ELSE <<>>

\* c.compute_candidates(request) of the i-th completer
CompleterCandidates(i, req) ==
    UltisnipsCompleter_compute_candidates(snippets[i], req)

\* a dispatcher that appends the other completers to the filename candidates
GenericCompleters_compute_candidates_merged(req) ==
    FilenameCompleter_compute_candidates(req)
        \o ConcatAll([i \in 1..Len(completers) |-> CompleterCandidates(i, req)])

\* GenericCompleters::compute_candidates
GenericCompleters_compute_candidates(req) ==
    LET c == FilenameCompleter_compute_candidates(req)
    IN  IF c # <<>> THEN c
        ELSE ConcatAll([i \in 1..Len(completers) |-> CompleterCandidates(i, req)])

\* GenericCompleters::on_event
GenericCompleters_on_event(event) ==
    [i \in 1..Len(completers) |-> UltisnipsCompleter_on_event(snippets[i], event)]

\* GenericCompleters with a list of completers, each with an empty cache
DispInit ==
    /\ completers \in CompleterLists
    /\ snippets = [i \in 1..Len(completers) |-> <<>>]
    /\ config \in Configs
    /\ request = <<>>
    /\ response = <<>>
    /\ visited = <<>>
    /\ RankIdle
    /\ LspIdle
    /\ SrvIdle
    /\ FnIdle

\* ServerState::event_notification
EventNotification(event) ==
    /\ snippets' = GenericCompleters_on_event(event)
    /\ visited' = IF event.event_name = "BufferVisit" /\ IsSome(event.ultisnips_snippets)
                  THEN event.ultisnips_snippets ELSE visited
    /\ UNCHANGED <<completers, config, request, response, rankVars, lspVars, srvVars, fnVars>>

\* ServerState::completions
Completions(req) ==
    /\ request' = Some(req)
    /\ response' = GenericCompleters_compute_candidates(req)
    /\ UNCHANGED <<completers, snippets, config, visited, rankVars, lspVars, srvVars, fnVars>>

DispNext ==
    \/ \E event \in Events : EventNotification(event)
    \/ \E req \in Requests : Completions(req)

DispSpec == DispInit /\ [][DispNext]_vars

\* candidates by provenance
IsSnippetCandidate(c) == IsSome(c.menu_text)
IsFilenameCandidate(c) == IsSome(c.extra_menu_info)

\* C1: filename-first policy: a non-empty filename result is the response, with
\* no candidate of another completer in it; the other completers contribute
\* only when the filename result is empty
C1_FilenameFirst ==
    IsSome(request) =>
        LET f == FilenameCompleter_compute_candidates(Unwrap(request))
        IN  /\ f # <<>> =>
                  /\ response = f
                  /\ \A i \in 1..Len(response) :
                        IsFilenameCandidate(response[i]) /\ ~IsSnippetCandidate(response[i])
            /\ (\E i \in 1..Len(response) : IsSnippetCandidate(response[i])) => f = <<>>

\* a request with filename candidates for which a snippet completer has matches
C1_Witness ==
    /\ IsSome(request)
    /\ FilenameCompleter_compute_candidates(Unwrap(request)) # <<>>
    /\ \E i \in 1..Len(completers) : CompleterCandidates(i, Unwrap(request)) # <<>>
    /\ response # <<>>

\* the response is in rank order of its insertion texts for the request's query
InRankOrder(resp, q) ==
    LET w == Word_new(q)
        r == [i \in 1..Len(resp) |-> matches_query(Candidate_new(resp[i].insertion_text), w)]
    IN  \A i, j \in 1..Len(resp) : i < j => partial_cmp(r[i], r[j]) # "Greater"

\* C7: with an empty filename result the response is the funnelled concatenation
\* of the completers' candidates: in global rank order, at most max_candidates
C7_ConcatenationFunnelled ==
    (IsSome(request) /\ FilenameCompleter_compute_candidates(Unwrap(request)) = <<>>) =>
        /\ Len(response) <= config.max_candidates
        /\ InRankOrder(response, Unwrap(request).query)

\* the candidates the specification builds from a snippet list: the trigger as
\* insertion text, "<snip> " and the description as menu text
SnippetCandidates(s) ==
    [i \in 1..Len(s) |->
        [ insertion_text |-> s[i].trigger,
          menu_text |-> Some(SnipPrefix \o s[i].description),
          extra_menu_info |-> <<>> ]]

\* C13: every snippet completer's cache is exactly the candidates built from the
\* most recent BufferVisit event that carried snippets (replaced, not appended
\* to), and is empty while no such event has arrived
C13_CacheIsLatestVisit ==
    \A i \in 1..Len(completers) :
        snippets[i] = IF IsSome(visited) THEN SnippetCandidates(Unwrap(visited)) ELSE <<>>

\* C13, the steps: a completion request, an event of another kind and a
\* BufferVisit without snippets leave every cache as it was
C13_OtherStepsKeepCache ==
    [][visited' = visited => snippets' = snippets]_vars

\* a second BufferVisit with other snippets has replaced a non-empty cache,
\* and a completion was answered since
C13_Witness ==
    /\ IsSome(visited)
    /\ Len(Unwrap(visited)) = 3
    /\ IsSome(request)
    /\ \E i \in 1..Len(completers) : Len(snippets[i]) = 3

(***************************************************************************)
(* completer/lsp/transport.rs, completer/lsp/client.rs: the LSP transport  *)
(***************************************************************************)
NumCallers == 2
MaxGen == 1
MaxFrames == 3

\* mpsc::channel(1024)
ChannelCapacity == 1024

\* callers 1..NumCallers issue requests; the last caller is LspClient::shutdown's request
Callers == 1..(NumCallers + 1)
ShutdownCaller == NumCallers + 1
Slots == 1..(NumCallers + 1)

\* a sharded_slab key: slot index and generation
Key(i, g) == [idx |-> i, gen |-> g]

\* an id the slab never hands out
UnknownKey == Key(0, 0)

\* Slab::insert into a free slot
Slab_insert(s, i, c) == [s EXCEPT ![i].sender = Some(c)]

\* a take that ignores the generation of the key
Slab_contains_any_generation(s, key) ==
    /\ key.idx \in 1..Len(s)
    /\ IsSome(s[key.idx].sender)

\* Slab::take finds an entry only under the generation the key was issued with
Slab_contains(s, key) ==
    /\ key.idx \in 1..Len(s)
    /\ s[key.idx].gen = key.gen
    /\ IsSome(s[key.idx].sender)

\* Slab::take removes the entry and retires its generation
Slab_take(s, key) == [s EXCEPT ![key.idx] = [gen |-> @.gen + 1, sender |-> <<>>]]

\* a frame on stream_in
Frame(t, k, n) == [type |-> t, id |-> k, serial |-> n]

\* an insert that may land on an occupied slot
AnySlots(s) == 1..Len(s)

\* free slots are interchangeable up to their generation: the first free slot
\* of each generation stands for all of them
FreeSlots(s) ==
    {i \in 1..Len(s) :
        /\ s[i].sender = <<>>
        /\ \A j \in 1..(i - 1) : ~(s[j].sender = <<>> /\ s[j].gen = s[i].gen)}

SeqToSet(q) == {q[i] : i \in 1..Len(q)}

CallInFlight(c) == callPc[c] \in {"inserted", "awaiting"}

\* LspTransport::new with both tasks spawned and the child running
LspInit ==
    /\ slab = [i \in Slots |-> [gen |-> 0, sender |-> <<>>]]
    /\ callPc = [c \in Callers |-> "idle"]
    /\ callId = [c \in Callers |-> <<>>]
    /\ callRes = [c \in Callers |-> <<>>]
    /\ clientQ = <<>>
    /\ serverSeen = <<>>
    /\ unknownIds = {}
    /\ streamIn = <<>>
    /\ streamInOpen = TRUE
    /\ streamOutOpen = TRUE
    /\ reader = "running"
    /\ writer = "running"
    /\ serverRequests = <<>>
    /\ serial = 0
    /\ shutdownPc = "idle"
    /\ childExited = FALSE
    /\ RankIdle
    /\ DispIdle
    /\ SrvIdle
    /\ FnIdle

\* LspTransport::call: oneshot::channel() and response_channels.insert(sender)
CallInsert(c, i) ==
    /\ callPc[c] = "idle"
    /\ shutdownPc = (IF c = ShutdownCaller THEN "requesting" ELSE "idle")
    \* callers are interchangeable: they start their calls in index order
    /\ c # ShutdownCaller => \A b \in 1..(c - 1) : callPc[b] # "idle"
    /\ i \in FreeSlots(slab)
    /\ slab[i].gen <= MaxGen
    /\ slab' = Slab_insert(slab, i, c)
    /\ callId' = [callId EXCEPT ![c] = Some(Key(i, slab[i].gen))]
    /\ callPc' = [callPc EXCEPT ![c] = "inserted"]
    /\ UNCHANGED <<callRes, clientQ, serverSeen, unknownIds, streamIn, streamInOpen, streamOutOpen,
                   reader, writer, serverRequests, serial, shutdownPc, childExited,
                   rankVars, dispVars, srvVars, fnVars>>

\* LspTransport::call: write_request, client_requests.send(request).await.unwrap()
CallWrite(c) ==
    /\ callPc[c] = "inserted"
    /\ IF writer = "running"
       THEN /\ Len(clientQ) < ChannelCapacity
            /\ clientQ' = Append(clientQ, Unwrap(callId[c]))
            /\ callPc' = [callPc EXCEPT ![c] = "awaiting"]
       ELSE /\ clientQ' = clientQ
            /\ callPc' = [callPc EXCEPT ![c] = "panicked"]
    /\ UNCHANGED <<slab, callId, callRes, serverSeen, unknownIds, streamIn, streamInOpen,
                   streamOutOpen, reader, writer, serverRequests, serial, shutdownPc,
                   childExited, rankVars, dispVars, srvVars, fnVars>>

\* LspTransport::call: receiver.await.unwrap() once the reader has sent the Output
CallReturn(c) ==
    /\ callPc[c] = "awaiting"
    /\ IsSome(callRes[c])
    /\ callPc' = [callPc EXCEPT ![c] = "returned"]
    /\ UNCHANGED <<slab, callId, callRes, clientQ, serverSeen, unknownIds, streamIn,
                   streamInOpen, streamOutOpen, reader, writer, serverRequests, serial,
                   shutdownPc, childExited, rankVars, dispVars, srvVars, fnVars>>

\* the future of LspTransport::call is dropped at receiver.await: the oneshot
\* receiver goes with it, the sender stays in response_channels
CallCancel(c) ==
    /\ callPc[c] = "awaiting"
    /\ callRes[c] = <<>>
    /\ callPc' = [callPc EXCEPT ![c] = "cancelled"]
    /\ UNCHANGED <<slab, callId, callRes, clientQ, serverSeen, unknownIds, streamIn,
                   streamInOpen, streamOutOpen, reader, writer, serverRequests, serial,
                   shutdownPc, childExited, rankVars, dispVars, srvVars, fnVars>>

\* the writer task: one request received and written, or a failed write_all
WriterStep ==
    /\ writer = "running"
    /\ clientQ # <<>>
    /\ IF streamOutOpen
       THEN /\ serverSeen' = Append(serverSeen, Head(clientQ))
            /\ clientQ' = Tail(clientQ)
            /\ writer' = writer
       ELSE /\ serverSeen' = serverSeen
            /\ clientQ' = <<>>
            /\ writer' = "stopped"
    /\ UNCHANGED <<slab, callPc, callId, callRes, unknownIds, streamIn, streamInOpen,
                   streamOutOpen, reader, serverRequests, serial, shutdownPc, childExited,
                   rankVars, dispVars, srvVars, fnVars>>

\* the reader task at end of file between two frames
ReaderEof ==
    /\ reader = "running"
    /\ streamIn = <<>>
    /\ ~streamInOpen
    /\ reader' = "stopped"
    /\ UNCHANGED <<slab, callPc, callId, callRes, clientQ, serverSeen, unknownIds, streamIn,
                   streamInOpen, streamOutOpen, writer, serverRequests, serial, shutdownPc,
                   childExited, rankVars, dispVars, srvVars, fnVars>>

\* the reader task: one frame read and dispatched
ReaderStep ==
    /\ reader = "running"
    /\ streamIn # <<>>
    /\ LET f == Head(streamIn)
       IN  /\ CASE f.type = "bad_header" ->
                     /\ reader' = "stopped"
                     /\ UNCHANGED <<slab, callRes, unknownIds, serverRequests>>
                [] f.type = "response" /\ Slab_contains(slab, f.id) ->
                     LET c == Unwrap(slab[f.id.idx].sender)
                     IN  /\ slab' = Slab_take(slab, f.id)
                         \* c.send(output).unwrap() with the receiver gone
                         /\ IF callPc[c] \in {"panicked", "cancelled"}
                            THEN reader' = "stopped" /\ callRes' = callRes
                            ELSE reader' = reader /\ callRes' = [callRes EXCEPT ![c] = Some(f)]
                         /\ UNCHANGED <<unknownIds, serverRequests>>
                [] f.type = "response" /\ ~Slab_contains(slab, f.id) ->
                     /\ unknownIds' = unknownIds \cup {f.id}
                     /\ UNCHANGED <<slab, callRes, reader, serverRequests>>
                [] f.type = "call" ->
                     /\ Len(serverRequests) < ChannelCapacity
                     /\ serverRequests' = Append(serverRequests, f.serial)
                     /\ UNCHANGED <<slab, callRes, unknownIds, reader>>
           \* a stopped reader drops stream_in with what is buffered
           /\ streamIn' = (IF reader' = "stopped" THEN <<>> ELSE Tail(streamIn))
    /\ UNCHANGED <<callPc, callId, clientQ, serverSeen, streamInOpen, streamOutOpen, writer,
                   serial, shutdownPc, childExited, rankVars, dispVars, srvVars, fnVars>>

\* the server writes a response: to a request it has read, again to one it has
\* already answered, or with an id of its own
ServerReply(key) ==
    /\ streamInOpen
    /\ reader = "running"
    /\ serial < MaxFrames
    /\ key \in SeqToSet(serverSeen) \cup {UnknownKey}
    /\ streamIn' = Append(streamIn, Frame("response", key, serial + 1))
    /\ serial' = serial + 1
    /\ UNCHANGED <<slab, callPc, callId, callRes, clientQ, serverSeen, unknownIds,
                   streamInOpen, streamOutOpen, reader, writer, serverRequests, shutdownPc,
                   childExited, rankVars, dispVars, srvVars, fnVars>>

\* the server writes a notification or call, or a frame whose headers cannot
\* be parsed
ServerSend(type) ==
    /\ streamInOpen
    /\ reader = "running"
    /\ serial < MaxFrames
    /\ streamIn' = Append(streamIn, Frame(type, UnknownKey, serial + 1))
    /\ serial' = serial + 1
    /\ UNCHANGED <<slab, callPc, callId, callRes, clientQ, serverSeen, unknownIds,
                   streamInOpen, streamOutOpen, reader, writer, serverRequests, shutdownPc,
                   childExited, rankVars, dispVars, srvVars, fnVars>>

\* the server closes its stdout
CloseStreamIn ==
    /\ streamInOpen
    /\ streamInOpen' = FALSE
    /\ UNCHANGED <<slab, callPc, callId, callRes, clientQ, serverSeen, unknownIds, streamIn,
                   streamOutOpen, reader, writer, serverRequests, serial, shutdownPc,
                   childExited, rankVars, dispVars, srvVars, fnVars>>

\* the server closes its stdin
CloseStreamOut ==
    /\ streamOutOpen
    /\ streamOutOpen' = FALSE
    /\ UNCHANGED <<slab, callPc, callId, callRes, clientQ, serverSeen, unknownIds, streamIn,
                   streamInOpen, reader, writer, serverRequests, serial, shutdownPc,
                   childExited, rankVars, dispVars, srvVars, fnVars>>

\* the child process exits; its ends of both pipes close
ChildExit ==
    /\ ~childExited
    /\ childExited' = TRUE
    /\ streamInOpen' = FALSE
    /\ streamOutOpen' = FALSE
    /\ UNCHANGED <<slab, callPc, callId, callRes, clientQ, serverSeen, unknownIds, streamIn,
                   reader, writer, serverRequests, serial, shutdownPc, rankVars, dispVars, srvVars, fnVars>>

\* LspClient::shutdown is entered; &mut self: no other request is in flight
ShutdownStart ==
    /\ shutdownPc = "idle"
    /\ \A c \in Callers : ~CallInFlight(c)
    /\ shutdownPc' = "requesting"
    /\ UNCHANGED <<slab, callPc, callId, callRes, clientQ, serverSeen, unknownIds, streamIn,
                   streamInOpen, streamOutOpen, reader, writer, serverRequests, serial,
                   childExited, rankVars, dispVars, srvVars, fnVars>>

\* LspClient::shutdown: self.request::<Shutdown>(()).await? has an outcome;
\* output is the variant of the Output the call returned
ShutdownRequestDone(output) ==
    /\ shutdownPc = "requesting"
    /\ callPc[ShutdownCaller] \in {"returned", "panicked"}
    /\ shutdownPc' =
          IF callPc[ShutdownCaller] = "panicked" THEN "panicked"
          ELSE IF output = "Failure" THEN "returned"
          ELSE "wait_child"
    /\ UNCHANGED <<slab, callPc, callId, callRes, clientQ, serverSeen, unknownIds, streamIn,
                   streamInOpen, streamOutOpen, reader, writer, serverRequests, serial,
                   childExited, rankVars, dispVars, srvVars, fnVars>>

\* LspClient::shutdown: self.child.wait().await? completes
ShutdownWaitChild ==
    /\ shutdownPc = "wait_child"
    /\ childExited
    /\ shutdownPc' = "returned"
    /\ UNCHANGED <<slab, callPc, callId, callRes, clientQ, serverSeen, unknownIds, streamIn,
                   streamInOpen, streamOutOpen, reader, writer, serverRequests, serial,
                   childExited, rankVars, dispVars, srvVars, fnVars>>

LspNext ==
    \/ \E c \in Callers, i \in Slots : CallInsert(c, i)
    \/ \E c \in Callers : CallWrite(c)
    \/ \E c \in Callers : CallReturn(c)
    \/ WriterStep
    \/ ReaderEof
    \/ ReaderStep
    \/ \E key \in {Key(i, g) : i \in Slots, g \in 0..MaxGen} \cup {UnknownKey} :
          ServerReply(key)
    \/ \E type \in {"call", "bad_header"} : ServerSend(type)
    \/ CloseStreamIn
    \/ CloseStreamOut
    \/ ChildExit
    \/ ShutdownStart
    \/ \E output \in {"Success", "Failure"} : ShutdownRequestDone(output)
    \/ ShutdownWaitChild

LspSpec == LspInit /\ [][LspNext]_vars

\* the tokio runtime keeps polling every runnable task, and a future that has
\* been entered runs on; the server, the child and the callers' decisions to
\* start a call or a shutdown are under no obligation
LspFairSpec ==
    /\ LspInit
    /\ [][LspNext]_vars
    /\ WF_vars(WriterStep)
    /\ WF_vars(ReaderEof \/ ReaderStep)
    /\ \A c \in Callers : WF_vars(CallWrite(c) \/ CallReturn(c))
    /\ WF_vars(\E i \in Slots : CallInsert(ShutdownCaller, i))
    /\ WF_vars((\E output \in {"Success", "Failure"} : ShutdownRequestDone(output))
                  \/ ShutdownWaitChild)

\* the same transport with callers that may abandon a call they await
LspCancelNext ==
    \/ LspNext
    \/ \E c \in Callers : CallCancel(c)

LspCancelSpec == LspInit /\ [][LspCancelNext]_vars

\* C8: each call is handed exactly the response that carries the id of its own
\* request, no response is handed to two calls, and a response whose id has no
\* waiting call is dropped (logged) leaving every call, the slab and the reader
\* as they were
C8_ResponseCorrelation ==
    /\ [](/\ \A c \in Callers :
                IsSome(callRes[c]) =>
                    /\ IsSome(callId[c])
                    /\ Unwrap(callRes[c]).type = "response"
                    /\ Unwrap(callRes[c]).id = Unwrap(callId[c])
          /\ \A c1, c2 \in Callers :
                (c1 # c2 /\ IsSome(callRes[c1]) /\ IsSome(callRes[c2])) =>
                    Unwrap(callRes[c1]).serial # Unwrap(callRes[c2]).serial)
    /\ [][(/\ reader = "running"
           /\ streamIn # <<>>
           /\ streamIn' = Tail(streamIn)
           /\ serial' = serial
           /\ Head(streamIn).type = "response"
           /\ \A c \in Callers :
                 ~(IsSome(callId[c]) /\ Unwrap(callId[c]) = Head(streamIn).id
                   /\ callRes[c] = <<>> /\ callPc[c] # "idle"))
          => (/\ callRes' = callRes
              /\ callPc' = callPc
              /\ slab' = slab
              /\ reader' = reader
              /\ unknownIds' = unknownIds \cup {Head(streamIn).id})]_vars

\* two calls answered in the reverse of the order their requests were written,
\* after a response with an unknown id was dropped
C8_Witness ==
    /\ callPc[1] = "returned"
    /\ callPc[2] = "returned"
    /\ UnknownKey \in unknownIds
    /\ Unwrap(callRes[1]).serial > Unwrap(callRes[2]).serial
    /\ \E i, j \in 1..Len(serverSeen) :
          /\ i < j
          /\ serverSeen[i] = Unwrap(callId[1])
          /\ serverSeen[j] = Unwrap(callId[2])

\* C9: LspClient::shutdown eventually returns, in particular when the language
\* server has already exited: no response can arrive then, whatever the server
\* would have sent
C9_ShutdownReturns ==
    (shutdownPc = "requesting" /\ childExited) ~> (shutdownPc = "returned")

\* C10: once the reader has stopped, or the writer has stopped before the
\* request reached the server, a call in flight without a response completes:
\* it neither waits forever nor aborts its caller
C10_CallsCompleteAfterStop ==
    \A c \in Callers :
        (/\ CallInFlight(c)
         /\ callRes[c] = <<>>
         /\ \/ reader = "stopped"
            \/ writer = "stopped" /\ Unwrap(callId[c]) \notin SeqToSet(serverSeen))
            ~> (callPc[c] \in {"failed", "returned"})

\* C22: when the response to a call whose awaiting side was dropped arrives,
\* the reader takes the entry of that id out of the slab, discards the response
\* and keeps running
C22_AbandonedCallTolerated ==
    [][\A c \in Callers :
          (/\ callPc[c] = "cancelled"
           /\ Slab_contains(slab, Unwrap(callId[c]))
           /\ ~Slab_contains(slab', Unwrap(callId[c])))
          => reader' = "running"]_vars

\* the calls whose response the reader has handed over
Dispatched(i) == {c \in Callers : IsSome(callId[c]) /\ Unwrap(callId[c]).idx = i
                                  /\ IsSome(callRes[c])}

\* the calls that hold an id and whose response has not been dispatched
Pending(i) == {c \in Callers : IsSome(callId[c]) /\ Unwrap(callId[c]).idx = i
                               /\ callRes[c] = <<>>}

\* C28: the ids of the calls in flight are pairwise distinct, the slab holds
\* exactly one sender per call whose response has not been dispatched, an entry
\* is removed exactly once, a slot is handed out again only after its entry was
\* removed, and the slab is empty once every call has been answered
C28_SlabTracksCalls ==
    /\ [](/\ \A c1, c2 \in Callers :
                (c1 # c2 /\ IsSome(callId[c1]) /\ IsSome(callId[c2]))
                    => Unwrap(callId[c1]) # Unwrap(callId[c2])
          /\ \A i \in Slots :
                /\ Cardinality(Pending(i)) = (IF IsSome(slab[i].sender) THEN 1 ELSE 0)
                /\ \A c \in Pending(i) :
                      /\ slab[i].sender = Some(c)
                      /\ Unwrap(callId[c]).gen = slab[i].gen
                /\ slab[i].gen = Cardinality(Dispatched(i))
          /\ (\A c \in Callers : callId[c] = <<>> \/ IsSome(callRes[c]))
                => \A i \in Slots : slab[i].sender = <<>>)
    /\ [][\A i \in Slots :
             /\ (IsSome(slab'[i].sender) /\ slab'[i].sender # slab[i].sender)
                   => slab[i].sender = <<>>
             /\ slab'[i].gen \in {slab[i].gen, slab[i].gen + 1}
             /\ slab'[i].gen = slab[i].gen + 1
                   => (IsSome(slab[i].sender) /\ slab'[i].sender = <<>>)]_vars

\* a slot handed out a second time after its first entry was taken, a second
\* response to the first id dropped, and the slab empty with every call answered
C28_Witness ==
    /\ \E c1, c2 \in Callers :
          /\ IsSome(callId[c1]) /\ IsSome(callId[c2])
          /\ Unwrap(callId[c1]).idx = Unwrap(callId[c2]).idx
          /\ Unwrap(callId[c1]).gen = 0
          /\ Unwrap(callId[c2]).gen = 1
          /\ IsSome(callRes[c1]) /\ IsSome(callRes[c2])
          /\ Unwrap(callId[c1]) \in unknownIds
    /\ \A i \in Slots : slab[i].sender = <<>>

(***************************************************************************)
(* server.rs: request handlers around Mutex<GenericCompleters>             *)
(***************************************************************************)
NumHandlers == 3

Handlers == 1..NumHandlers

\* positions inside GenericCompleters::compute_candidates: 1 is fname_completer,
\* k + 1 is completers[k]
NumPositions == MaxCompleters + 1

\* a Mutex that hands out its guard without waiting for the holder
Mutex_lock_unguarded(m) == TRUE

\* Mutex::lock returns once no other guard is alive
Mutex_lock(m) == m = 0

\* handlers of requests that have arrived; a request may be one on which the
\* completer at position hFails panics
SrvInit ==
    /\ mutex = 0
    /\ poisoned = FALSE
    /\ hKind \in [Handlers -> {"completions", "event_notification", "get_messages"}]
    /\ hFails \in [Handlers -> 0..NumPositions]
    /\ \A h \in Handlers : hKind[h] # "completions" => hFails[h] = 0
    /\ hPc = [h \in Handlers |-> "start"]
    /\ hIdx = [h \in Handlers |-> 0]
    /\ hSeen = [h \in Handlers |-> <<>>]
    /\ cacheVer = [k \in 1..MaxCompleters |-> 0]
    /\ RankIdle
    /\ DispIdle
    /\ LspIdle
    /\ FnIdle

\* self.generic_completers.lock().unwrap()
Lock(h) ==
    /\ hPc[h] = "start"
    /\ hKind[h] \in {"completions", "event_notification"}
    /\ Mutex_lock(mutex)
    /\ IF poisoned
       THEN mutex' = mutex /\ hPc' = [hPc EXCEPT ![h] = "panicked"]
       ELSE mutex' = h /\ hPc' = [hPc EXCEPT ![h] = "locked"]
    /\ UNCHANGED <<poisoned, hKind, hFails, hIdx, hSeen, cacheVer, rankVars, dispVars,
                   lspVars, fnVars>>

\* GenericCompleters::on_event: c.on_event(event) of the next completer
OnEventStep(h) ==
    /\ hPc[h] = "locked"
    /\ hKind[h] = "event_notification"
    /\ hIdx[h] < MaxCompleters
    /\ cacheVer' = [cacheVer EXCEPT ![hIdx[h] + 1] = h]
    /\ hIdx' = [hIdx EXCEPT ![h] = @ + 1]
    /\ UNCHANGED <<mutex, poisoned, hKind, hFails, hPc, hSeen, rankVars, dispVars,
                   lspVars, fnVars>>

\* GenericCompleters::compute_candidates: self.fname_completer.compute_candidates(request),
\* which panics, returns candidates (the response), or returns nothing
ComputeFilename(h, nonempty) ==
    /\ hPc[h] = "locked"
    /\ hKind[h] = "completions"
    /\ hIdx[h] = 0
    /\ IF hFails[h] = 1
       THEN /\ hPc' = [hPc EXCEPT ![h] = "panicked"]
            /\ mutex' = 0
            /\ poisoned' = TRUE
            /\ hIdx' = hIdx
       ELSE /\ hIdx' = [hIdx EXCEPT ![h] = IF nonempty THEN NumPositions ELSE 1]
            /\ UNCHANGED <<hPc, mutex, poisoned>>
    /\ UNCHANGED <<hKind, hFails, hSeen, cacheVer, rankVars, dispVars, lspVars, fnVars>>

\* GenericCompleters::compute_candidates: c.compute_candidates(request) of the
\* next completer, which reads its cache or panics
ComputeStep(h) ==
    /\ hPc[h] = "locked"
    /\ hKind[h] = "completions"
    /\ hIdx[h] \in 1..MaxCompleters
    /\ IF hFails[h] = hIdx[h] + 1
       THEN /\ hPc' = [hPc EXCEPT ![h] = "panicked"]
            /\ mutex' = 0
            /\ poisoned' = TRUE
            /\ UNCHANGED <<hIdx, hSeen>>
       ELSE /\ hSeen' = [hSeen EXCEPT ![h] = Append(@, cacheVer[hIdx[h]])]
            /\ hIdx' = [hIdx EXCEPT ![h] = @ + 1]
            /\ UNCHANGED <<hPc, mutex, poisoned>>
    /\ UNCHANGED <<hKind, hFails, cacheVer, rankVars, dispVars, lspVars, fnVars>>

\* the MutexGuard temporary is dropped at the end of the statement
Unlock(h) ==
    /\ hPc[h] = "locked"
    /\ hIdx[h] = (IF hKind[h] = "completions" THEN NumPositions ELSE MaxCompleters)
    /\ mutex' = 0
    /\ hPc' = [hPc EXCEPT ![h] = "done"]
    /\ UNCHANGED <<poisoned, hKind, hFails, hIdx, hSeen, cacheVer, rankVars, dispVars,
                   lspVars, fnVars>>

\* ServerState::get_messages: tokio::time::sleep(...).await
Sleep(h) ==
    /\ hPc[h] = "start"
    /\ hKind[h] = "get_messages"
    /\ hPc' = [hPc EXCEPT ![h] = "sleeping"]
    /\ UNCHANGED <<mutex, poisoned, hKind, hFails, hIdx, hSeen, cacheVer, rankVars,
                   dispVars, lspVars, fnVars>>

\* ServerState::get_messages: the sleep is over, MessagePollResponse(true)
Wake(h) ==
    /\ hPc[h] = "sleeping"
    /\ hPc' = [hPc EXCEPT ![h] = "done"]
    /\ UNCHANGED <<mutex, poisoned, hKind, hFails, hIdx, hSeen, cacheVer, rankVars,
                   dispVars, lspVars, fnVars>>

SrvNext ==
    \/ \E h \in Handlers : Lock(h)
    \/ \E h \in Handlers : OnEventStep(h)
    \/ \E h \in Handlers, nonempty \in BOOLEAN : ComputeFilename(h, nonempty)
    \/ \E h \in Handlers : ComputeStep(h)
    \/ \E h \in Handlers : Unlock(h)
    \/ \E h \in Handlers : Sleep(h)
    \/ \E h \in Handlers : Wake(h)

SrvSpec == SrvInit /\ [][SrvNext]_vars

\* C11: on_event and compute_candidates never run at the same time: a handler
\* is inside its locked call exactly while it holds the guard, every completion
\* read all the caches it visited in the state one event (or none) left them in,
\* and get_messages never holds the lock, in particular not while it sleeps
C11_LockDiscipline ==
    /\ \A h \in Handlers : (hPc[h] = "locked") <=> (mutex = h)
    /\ \A h \in Handlers : \A i, j \in 1..Len(hSeen[h]) : hSeen[h][i] = hSeen[h][j]
    /\ \A h \in Handlers :
          /\ hPc[h] = "locked" => \A k \in 1..MaxCompleters :
                cacheVer[k] = (IF hKind[h] = "event_notification" /\ k <= hIdx[h]
                               THEN h ELSE cacheVer[MaxCompleters])
          /\ hKind[h] = "get_messages" => mutex # h
          /\ hPc[h] = "sleeping" => hKind[h] = "get_messages"

\* a completion that read every cache as one finished event left it, while a
\* get_messages request sleeps
C11_Witness ==
    \E c, g, e \in Handlers :
        /\ hKind[c] = "completions" /\ hPc[c] = "done"
        /\ Len(hSeen[c]) = MaxCompleters
        /\ hSeen[c][1] # 0
        /\ hPc[g] = "sleeping"
        /\ hKind[e] = "event_notification" /\ hPc[e] = "done"

\* C12: a completion request on which one completer fails is still finished:
\* its handler is not aborted
C12_FailureContained ==
    \A h \in Handlers : hKind[h] = "completions" => hPc[h] # "panicked"

\* C30: a request that aborts while it holds the dispatcher lock does not
\* disable the server: a later completions or event_notification request on
\* which no completer fails still acquires the state and is not aborted
C30_ServerSurvivesAbort ==
    \A h \in Handlers : hFails[h] = 0 => hPc[h] # "panicked"

(***************************************************************************)
(* core/utils/identifier.rs: identifiers in UTF-8 text                     *)
(***************************************************************************)
\* texts are UTF-8 byte sequences; offsets are 0-based byte offsets
MaxChars == 3

\* the characters texts are built from: a 8 _ $ ( and the two-byte e-acute
Alphabet == {<<97>>, <<56>>, <<95>>, <<36>>, <<40>>, <<195, 169>>}

RECURSIVE Strings(_, _)
Strings(alphabet, n) ==
    IF n = 0 THEN {<<>>}
    ELSE LET s == Strings(alphabet, n - 1)
         IN  s \cup {t \o c : t \in s, c \in alphabet}

\* str::is_char_boundary
is_char_boundary(text, i) ==
    \/ i = 0
    \/ i = Len(text)
    \/ i < Len(text) /\ text[i + 1] \notin 128..191

\* the char that starts at byte offset i (i on a char boundary, i < len)
CharAt(text, i) ==
    IF text[i + 1] >= 192 THEN SubSeq(text, i + 1, i + 2) ELSE <<text[i + 1]>>

\* \d and \w of the regex crate
IsDigit(c) == Len(c) = 1 /\ c[1] \in 48..57
IsWord(c) ==
    \/ Len(c) = 1 /\ c[1] \in (48..57) \cup (65..90) \cup (97..122) \cup {95}
    \/ c \in {<<195, 169>>, <<195, 137>>, <<195, 164>>, <<195, 182>>}

\* DEFAULT_IDENTIFIER_REGEX [^\W\d]\w* and JS_IDENTIFIER_REGEX (?:[^\W\d]|\$)[\w$]*:
\* the class of the first char and the class of the chars after it
IdentifierHead(c, re) == (IsWord(c) /\ ~IsDigit(c)) \/ (re = "js" /\ c = <<36>>)
IdentifierTail(c, re) == IsWord(c) \/ (re = "js" /\ c = <<36>>)

\* get_identifier_re_for_ftype
get_identifier_re_for_ftype(filetype) ==
    IF filetype = <<>> THEN "default"
    ELSE IF filetype[1] \in {"javascript", "typescript"} THEN "js"
    ELSE "default"

\* the end of the longest run of tail chars from byte offset i
RECURSIVE TailEnd(_, _, _)
TailEnd(text, i, re) ==
    IF i < Len(text) /\ IdentifierTail(CharAt(text, i), re)
    THEN TailEnd(text, i + Len(CharAt(text, i)), re)
    ELSE i

\* Regex::captures: the leftmost match, as Option of its range <<start, end>>
RECURSIVE Regex_captures(_, _, _)
Regex_captures(text, i, re) ==
    IF i >= Len(text) THEN <<>>
    ELSE LET c == CharAt(text, i)
         IN  IF IdentifierHead(c, re)
             THEN <<<<i, TailEnd(text, i + Len(c), re)>>>>
             ELSE Regex_captures(text, i + Len(c), re)

\* is_identifier
is_identifier(text, filetype) ==
    IF text = <<>> THEN FALSE
    ELSE LET c == Regex_captures(text, 0, get_identifier_re_for_ftype(filetype))
         IN  IF c # <<>> THEN c[1] = <<0, Len(text)>> ELSE FALSE

\* &text[a..b]
Slice(text, a, b) == SubSeq(text, a + 1, b)

\* a scan that stops at the first identifier found going down from index
RECURSIVE ScanDown(_, _, _, _)
ScanDown(text, i, index, filetype) ==
    LET k == index - 1 - i
    IN  IF k < 0 THEN index
        ELSE IF is_char_boundary(text, k) /\ is_identifier(Slice(text, k, index), filetype)
        THEN k
        ELSE ScanDown(text, i + 1, index, filetype)

\* for i in 0..index { ... }
RECURSIVE Scan(_, _, _, _)
Scan(text, i, index, filetype) ==
    IF i >= index THEN index
    ELSE IF is_char_boundary(text, i) /\ is_identifier(Slice(text, i, index), filetype)
    THEN i
    ELSE Scan(text, i + 1, index, filetype)

\* start_of_longest_identifier_ending_at_index
start_of_longest_identifier_ending_at_index(text, index, filetype) ==
    IF Len(text) < index \/ ~is_char_boundary(text, index) THEN index
    ELSE Scan(text, 0, index, filetype)

Filetypes == {<<>>, <<"rust">>, <<"javascript">>}

IdentInit ==
    /\ call \in [ text : Strings(Alphabet, MaxChars), index : 0..(2 * MaxChars + 1),
                  filetype : Filetypes ]
    /\ ret = <<>>
    /\ RankIdle
    /\ DispIdle
    /\ LspIdle
    /\ SrvIdle

\* one call of start_of_longest_identifier_ending_at_index
CallStartOfLongestIdentifier ==
    /\ ret = <<>>
    /\ ret' = <<start_of_longest_identifier_ending_at_index(call.text, call.index, call.filetype)>>
    /\ UNCHANGED <<call, rankVars, dispVars, lspVars, srvVars>>

IdentNext == CallStartOfLongestIdentifier

IdentSpec == IdentInit /\ [][IdentNext]_vars

\* C17: start_of_longest_identifier_ending_at_index returns index when index is
\* beyond the text or not a char boundary; otherwise it returns a char boundary
\* r <= index such that text[r..index] is empty or an identifier of the
\* filetype, and no smaller char boundary starts an identifier ending at index
C17_LongestIdentifierStart ==
    ret # <<>> =>
        LET text == call.text
            index == call.index
            r == ret[1]
        IN  IF index > Len(text) \/ ~is_char_boundary(text, index)
            THEN r = index
            ELSE /\ r <= index
                 /\ is_char_boundary(text, r)
                 /\ r = index \/ is_identifier(Slice(text, r, index), call.filetype)
                 /\ \A i \in 0..(r - 1) :
                        is_char_boundary(text, i) =>
                            ~is_identifier(Slice(text, i, index), call.filetype)

\* an identifier with a two-byte char found behind punctuation, with a shorter
\* identifier ending at the same index
C17_Witness ==
    /\ ret # <<>>
    /\ call.text = <<40, 195, 169, 97>>
    /\ call.index = 4
    /\ ret[1] = 1

(***************************************************************************)
(* ycmd_types.rs: the derived accessors of SimpleRequest                   *)
(***************************************************************************)
\* the outcome of a call: a value, or a panic that unwinds the request task
Ok(v) == [kind |-> "Ok", value |-> <<v>>]
Panic == [kind |-> "Panic", value |-> <<>>]

\* the characters file contents are built from: a, e-acute, space, newline
ContentAlphabet == {<<97>>, <<195, 169>>, <<32>>, <<10>>}

\* str::lines: split at "\n", a final empty piece is not a line, a trailing
\* "\r" of a line is not part of it
RECURSIVE str_lines(_)
str_lines(s) ==
    IF s = <<>> THEN <<>>
    ELSE LET nl == {i \in 1..Len(s) : s[i] = 10}
         IN  IF nl = {} THEN << IF s[Len(s)] = 13 THEN SubSeq(s, 1, Len(s) - 1) ELSE s >>
             ELSE LET n == CHOOSE i \in nl : \A j \in nl : i <= j
                      l == SubSeq(s, 1, n - 1)
                  IN  << IF l # <<>> /\ l[Len(l)] = 13 THEN SubSeq(l, 1, Len(l) - 1) ELSE l >>
                          \o str_lines(SubSeq(s, n + 1, Len(s)))

\* FileData
FileDatas == [filetypes : {<<>>, <<"rust", "c">>}, contents : Strings(ContentAlphabet, MaxChars)]

\* SimpleRequest: file_data.get(&filepath) as an Option, the cursor, and the
\* min_num_chars of the completer asked
SimpleRequests ==
    [ file_data : {<<>>} \cup {Some(f) : f \in FileDatas},
      line_num : 0..(MaxChars + 1),
      column_num : 1..(2 * MaxChars + 2),
      min_num_chars : 1..2 ]

\* SimpleRequest::lines
SimpleRequest_lines(req) ==
    IF req.file_data = <<>> THEN Panic
    ELSE Ok(str_lines(Unwrap(req.file_data).contents))

\* SimpleRequest::filetypes
SimpleRequest_filetypes(req) ==
    IF req.file_data = <<>> THEN <<>> ELSE Unwrap(req.file_data).filetypes

\* SimpleRequest::first_filetype
SimpleRequest_first_filetype(req) ==
    LET f == SimpleRequest_filetypes(req)
    IN  IF f = <<>> THEN <<>> ELSE Some(f[1])

\* SimpleRequest::line_value; line_num - 1 at line_num = 0 overflows: a panic
\* with overflow checks, else nth(usize::MAX) is None and unwrap panics
SimpleRequest_line_value(req) ==
    LET l == SimpleRequest_lines(req)
    IN  IF l.kind = "Panic" THEN Panic
        ELSE IF req.line_num = 0 \/ req.line_num > Len(l.value[1]) THEN Panic
        ELSE Ok(l.value[1][req.line_num])

\* SimpleRequest::start_column
SimpleRequest_start_column(req) ==
    LET l == SimpleRequest_line_value(req)
    IN  IF l.kind = "Panic" THEN Panic
        ELSE Ok(start_of_longest_identifier_ending_at_index(
                    l.value[1], req.column_num - 1, SimpleRequest_first_filetype(req)))

\* &text[a..b] and &text[a..=b-1]: a panic unless a <= b <= len, both on char
\* boundaries
str_index(text, a, b) ==
    IF a > b \/ b > Len(text) \/ ~is_char_boundary(text, a) \/ ~is_char_boundary(text, b)
    THEN Panic
    ELSE Ok(Slice(text, a, b))

\* SimpleRequest::query; column_num - 2 at column_num = 1 overflows: a panic
\* with overflow checks, else the range ends at usize::MAX and indexing panics
SimpleRequest_query(req) ==
    LET l == SimpleRequest_line_value(req)
        s == SimpleRequest_start_column(req)
    IN  IF l.kind = "Panic" \/ s.kind = "Panic" THEN Panic
        ELSE IF req.column_num < 2 THEN Panic
        ELSE str_index(l.value[1], s.value[1], req.column_num - 1)

\* SimpleRequest::prefix
SimpleRequest_prefix(req) ==
    LET s == SimpleRequest_start_column(req)
    IN  IF s.kind = "Panic" THEN Panic
        ELSE IF s.value[1] = 0 THEN Ok(<<>>)
        ELSE str_index(SimpleRequest_line_value(req).value[1], 0, s.value[1])

\* Completer::query_length_above_min_threshold
query_length_above_min_threshold(start_codepoint, column_codepoint, min_num_chars) ==
    column_codepoint - start_codepoint >= min_num_chars

\* UltisnipsCompleter::should_use_now
UltisnipsCompleter_should_use_now(req) ==
    LET s == SimpleRequest_start_column(req)
    IN  IF s.kind = "Panic" THEN Panic
        ELSE Ok(query_length_above_min_threshold(s.value[1], req.column_num, req.min_num_chars))

ReqInit ==
    /\ call \in SimpleRequests
    /\ ret = <<>>
    /\ RankIdle
    /\ DispIdle
    /\ LspIdle
    /\ SrvIdle

\* the call returns or panics
Return(f, outcome) ==
    /\ ret = <<>>
    /\ ret' = <<[fn |-> f, kind |-> outcome.kind, value |-> outcome.value]>>
    /\ UNCHANGED <<call, rankVars, dispVars, lspVars, srvVars>>

CallLines == Return("lines", SimpleRequest_lines(call))
CallLineValue == Return("line_value", SimpleRequest_line_value(call))
CallStartColumn == Return("start_column", SimpleRequest_start_column(call))
CallQuery == Return("query", SimpleRequest_query(call))
CallPrefix == Return("prefix", SimpleRequest_prefix(call))
CallShouldUseNow == Return("should_use_now", UltisnipsCompleter_should_use_now(call))

ReqNext ==
    \/ CallLines
    \/ CallLineValue
    \/ CallStartColumn
    \/ CallQuery
    \/ CallPrefix
    \/ CallShouldUseNow

ReqSpec == ReqInit /\ [][ReqNext]_vars

\* the request names a line of its file and a cursor column on that line, at
\* a char boundary
WellFormed(req) ==
    /\ req.file_data # <<>>
    /\ req.line_num \in 1..Len(str_lines(Unwrap(req.file_data).contents))
    /\ LET line == str_lines(Unwrap(req.file_data).contents)[req.line_num]
       IN  /\ req.column_num \in 1..(Len(line) + 1)
           /\ is_char_boundary(line, req.column_num - 1)

\* C14: should_use_now of the snippet completer is true exactly when the query,
\* the (column_num - 1) - start_column bytes before the cursor, has at least
\* min_num_chars bytes
C14_ShouldUseNowIsQueryLength ==
    (ret # <<>> /\ ret[1].fn = "should_use_now" /\ ret[1].kind = "Ok") =>
        LET s == SimpleRequest_start_column(call).value[1]
        IN  ret[1].value[1] = ((call.column_num - 1) - s >= call.min_num_chars)

\* C15: on a well-formed request query() is the line from start_column() to the
\* cursor and prefix() is the line up to start_column(), also with the cursor
\* in column 1 and with an empty query
C15_QueryAndPrefixSplitLine ==
    (ret # <<>> /\ WellFormed(call)) =>
        LET line == SimpleRequest_line_value(call).value[1]
            s == SimpleRequest_start_column(call).value[1]
        IN  /\ ret[1].fn = "query" =>
                  ret[1].kind = "Ok" /\ ret[1].value[1] = Slice(line, s, call.column_num - 1)
            /\ ret[1].fn = "prefix" =>
                  ret[1].kind = "Ok" /\ ret[1].value[1] = Slice(line, 0, s)

\* the request's file is missing, or its line or its column is out of range
Malformed(req) ==
    \/ req.file_data = <<>>
    \/ req.line_num \notin 1..Len(str_lines(Unwrap(req.file_data).contents))
    \/ req.column_num > Len(str_lines(Unwrap(req.file_data).contents)[req.line_num]) + 1

\* C16: on a malformed request the derived accessors fail with an error
\* outcome: none of them aborts the request task
C16_MalformedIsAnError ==
    (ret # <<>> /\ Malformed(call)
        /\ ret[1].fn \in {"lines", "line_value", "start_column", "query", "prefix"}) =>
            ret[1].kind # "Panic"

(***************************************************************************)
(* completer/trigger.rs: completion triggers                               *)
(***************************************************************************)
MaxMaps == 2

\* "re!"
REGEX_PREFIX == <<114, 101, 33>>

\* the characters regex::escape puts a backslash before
MetaChars == {92, 46, 43, 42, 63, 40, 41, 124, 91, 93, 123, 125, 94, 36, 35, 38, 45, 126}

\* regex::escape
RECURSIVE escape(_)
escape(p) ==
    IF p = <<>> THEN <<>>
    ELSE (IF p[1] \in MetaChars THEN <<92, p[1]>> ELSE <<p[1]>>) \o escape(Tail(p))

\* str::starts_with
starts_with(s, prefix) == Len(s) >= Len(prefix) /\ SubSeq(s, 1, Len(prefix)) = prefix

\* the closure of parse_triggers: a pattern of the input as regex source
PatternSource(p) ==
    IF starts_with(p, REGEX_PREFIX) THEN SubSeq(p, Len(REGEX_PREFIX) + 1, Len(p))
    ELSE escape(p)

\* str::split(',')
RECURSIVE split(_)
split(k) ==
    LET commas == {i \in 1..Len(k) : k[i] = 44}
    IN  IF commas = {} THEN <<k>>
        ELSE LET n == CHOOSE i \in commas : \A j \in commas : i <= j
             IN  <<SubSeq(k, 1, n - 1)>> \o split(SubSeq(k, n + 1, Len(k)))

\* k.split(',').filter(|f| filetypes.is_empty() || filetypes.contains(*f))
FilteredFiletypes(k, filetypes) ==
    SelectSeq(split(k), LAMBDA f : filetypes = {} \/ f \in filetypes)

\* a merge that keeps only the patterns of the entry at hand
ReplacePatterns(new, old) == new

\* patterns.extend_from_slice(re.patterns())
MergePatterns(new, old) == new \o old

\* the body of the loop over the filetypes of one entry (k, v), from the n-th on
RECURSIVE InsertEntry(_, _, _, _)
InsertEntry(res, ftypes, n, v) ==
    IF n > Len(ftypes) THEN res
    ELSE LET ftype == ftypes[n]
             old == IF ftype \in DOMAIN res THEN res[ftype] ELSE <<>>
             patterns == MergePatterns([i \in 1..Len(v) |-> PatternSource(v[i])], old)
         IN  InsertEntry([f \in DOMAIN res \cup {ftype} |->
                              IF f = ftype THEN patterns ELSE res[f]],
                         ftypes, n + 1, v)

\* filetype names c, o, p and the keys "c", "o,p", "o"
F_c == <<99>>
F_o == <<111>>
F_p == <<112>>
TriggerKeys == {F_c, F_o \o <<44>> \o F_p, F_o}

\* ".", "->", "re!.+", "a"
TriggerLists == { << <<46>>, <<45, 62>>, REGEX_PREFIX \o <<46, 43>> >>, << <<97>> >> }

\* HashMap<String, Vec<String>>
TriggerMaps == UNION {[ks -> TriggerLists] : ks \in SUBSET TriggerKeys}

FiletypeFilters == {{}, {F_o}, {F_c, F_p}}

\* the first map from the i-th on with an entry left to drain
RECURSIVE NextMap(_, _)
NextMap(triggers, i) ==
    IF i > Len(triggers) \/ DOMAIN triggers[i] # {} THEN i ELSE NextMap(triggers, i + 1)

TrigInit ==
    /\ call \in [ triggers : UNION {[1..n -> TriggerMaps] : n \in 1..MaxMaps},
                  filetypes : FiletypeFilters ]
    /\ ret = <<>>
    /\ RankIdle
    /\ DispIdle
    /\ LspIdle
    /\ SrvIdle

\* parse_triggers is entered: res is empty
ParseStart ==
    /\ ret = <<>>
    /\ LET i == NextMap(call.triggers, 1)
       IN  ret' = <<[ res |-> [f \in {} |-> <<>>], map |-> i,
                      rest |-> IF i > Len(call.triggers) THEN {} ELSE DOMAIN call.triggers[i] ]>>
    /\ UNCHANGED <<call, rankVars, dispVars, lspVars, srvVars>>

\* map.drain() yields the entry of key k, in whatever order the HashMap has
ParseEntry(k) ==
    /\ ret # <<>>
    /\ k \in ret[1].rest
    /\ LET st == ret[1]
           res == InsertEntry(st.res, FilteredFiletypes(k, call.filetypes), 1,
                              call.triggers[st.map][k])
           i == IF st.rest = {k} THEN NextMap(call.triggers, st.map + 1) ELSE st.map
       IN  ret' = <<[ res |-> res, map |-> i,
                      rest |-> IF i = st.map THEN st.rest \ {k}
                               ELSE IF i > Len(call.triggers) THEN {}
                               ELSE DOMAIN call.triggers[i] ]>>
    /\ UNCHANGED <<call, rankVars, dispVars, lspVars, srvVars>>

TrigNext ==
    \/ ParseStart
    \/ \E k \in TriggerKeys : ParseEntry(k)

TrigSpec == TrigInit /\ [][TrigNext]_vars

\* parse_triggers has returned res
ParseDone == ret # <<>> /\ ret[1].map > Len(call.triggers)

\* the input entries whose key names ft
EntriesNaming(ft) ==
    {<<i, k>> \in (1..Len(call.triggers)) \X TriggerKeys :
        k \in DOMAIN call.triggers[i] /\ \E n \in 1..Len(split(k)) : split(k)[n] = ft}

\* C19: the pattern set parse_triggers returns for a filetype is the union of
\* the patterns (escaped, or raw after "re!") of all entries of all maps whose
\* key names it; a filetype has an entry iff a key names it and the filter, if
\* not empty, lists it; this holds for every order of draining the maps
C19_PatternSetIsUnion ==
    ParseDone =>
        LET res == ret[1].res
        IN  /\ DOMAIN res = {ft \in {F_c, F_o, F_p} :
                                /\ EntriesNaming(ft) # {}
                                /\ call.filetypes = {} \/ ft \in call.filetypes}
            /\ \A ft \in DOMAIN res :
                  {res[ft][n] : n \in 1..Len(res[ft])}
                      = UNION { {PatternSource(call.triggers[e[1]][e[2]][n]) :
                                     n \in 1..Len(call.triggers[e[1]][e[2]])} :
                                e \in EntriesNaming(ft) }

\* two maps were parsed; "a" is given under the key "o" only, while "o" and "p"
\* share the key "o,p": "a" is a pattern of o and not of p
C19_Witness ==
    /\ ParseDone
    /\ Len(call.triggers) = 2
    /\ F_o \o <<44>> \o F_p \in DOMAIN call.triggers[1]
    /\ F_o \in DOMAIN call.triggers[2]
    /\ {F_o, F_p} \subseteq DOMAIN ret[1].res
    /\ \E n \in 1..Len(ret[1].res[F_o]) : ret[1].res[F_o][n] = <<97>>
    /\ \A n \in 1..Len(ret[1].res[F_p]) : ret[1].res[F_p][n] # <<97>>
    /\ Len(ret[1].res[F_o]) > 3

\* Regex::new on the regex syntax in use: a sequence of atoms, each a literal
\* char, an escaped char or ".", each optionally repeated by "+"
RECURSIVE Regex_new(_)
Regex_new(src) ==
    IF src = <<>> THEN <<>>
    ELSE LET n == IF src[1] = 92 THEN 2 ELSE 1
             plus == Len(src) > n /\ src[n + 1] = 43
         IN  <<[any |-> src[1] = 46, ch |-> <<src[n]>>, plus |-> plus]>>
                 \o Regex_new(SubSeq(src, n + (IF plus THEN 2 ELSE 1), Len(src)))

\* the leftmost-first match of the atoms from the k-th on at byte offset pos:
\* Option of its end; a repeated atom takes as many chars as the rest allows
RECURSIVE Regex_match_at(_, _, _, _)
Regex_match_at(atoms, k, text, pos) ==
    IF k > Len(atoms) THEN Some(pos)
    ELSE IF pos >= Len(text) THEN <<>>
    ELSE LET c == CharAt(text, pos)
             next == pos + Len(c)
         IN  IF ~(IF atoms[k].any THEN c # <<10>> ELSE c = atoms[k].ch) THEN <<>>
             ELSE IF atoms[k].plus
             THEN LET more == Regex_match_at(atoms, k, text, next)
                  IN  IF more # <<>> THEN more ELSE Regex_match_at(atoms, k + 1, text, next)
             ELSE Regex_match_at(atoms, k + 1, text, next)

\* Regex::find_iter: the successive non-overlapping matches <<start, end>>
\* from byte offset pos on
RECURSIVE find_iter(_, _, _)
find_iter(atoms, text, pos) ==
    IF pos > Len(text) THEN <<>>
    ELSE LET m == Regex_match_at(atoms, 1, text, pos)
             step == IF pos < Len(text) THEN pos + Len(CharAt(text, pos)) ELSE pos + 1
         IN  IF m = <<>> THEN find_iter(atoms, text, step)
             ELSE <<<<pos, Unwrap(m)>>>>
                      \o find_iter(atoms, text, IF Unwrap(m) > pos THEN Unwrap(m) ELSE step)

\* a matcher that searches the whole line
WholeLine(line, column_codepoint) == Ok(line)

\* the line up to the column: &line[..column_codepoint] or &line[..]
LineUpToColumn(line, column_codepoint) ==
    IF column_codepoint < Len(line) THEN str_index(line, 0, column_codepoint) ELSE Ok(line)

\* PatternMatcher::matches_for_filetype
matches_for_filetype(table, filetype, line, start_codepoint, column_codepoint) ==
    LET l == LineUpToColumn(line, column_codepoint)
    IN  IF l.kind = "Panic" THEN Panic
        ELSE IF filetype \notin DOMAIN table THEN Ok(FALSE)
        ELSE LET re == table[filetype]
                 matches == {m \in 1..Len(re) : find_iter(Regex_new(re[m]), l.value[1], 0) # <<>>}
             IN  Ok(\E m \in matches :
                        LET hits == find_iter(Regex_new(re[m]), l.value[1], 0)
                        IN  \E h \in 1..Len(hits) :
                                start_codepoint <= hits[h][2] /\ hits[h][2] <= column_codepoint)

\* the characters lines are built from: a . - > and the two-byte e-acute
LineAlphabet == {<<97>>, <<46>>, <<45>>, <<62>>, <<195, 169>>}

\* what parse_triggers returns for a map with the keys "c" and "o,p"
TriggerTables ==
    { InsertEntry(InsertEntry([f \in {} |-> <<>>], <<F_c>>, 1, v1), <<F_o, F_p>>, 1, v2) :
          v1 \in TriggerLists, v2 \in TriggerLists }

MatchInit ==
    /\ call \in [ table : TriggerTables, filetype : {F_c, F_o, <<120>>},
                  line : Strings(LineAlphabet, MaxChars),
                  start_codepoint : 0..(MaxChars + 1), column_codepoint : 0..(MaxChars + 2) ]
    /\ ret = <<>>
    /\ RankIdle
    /\ DispIdle
    /\ LspIdle
    /\ SrvIdle

\* one call of matches_for_filetype
CallMatchesForFiletype ==
    Return("matches_for_filetype",
           matches_for_filetype(call.table, call.filetype, call.line,
                                call.start_codepoint, call.column_codepoint))

MatchNext == CallMatchesForFiletype

MatchSpec == MatchInit /\ [][MatchNext]_vars

\* the part of the line the claim searches
SearchedLine ==
    IF call.column_codepoint < Len(call.line)
    THEN Slice(call.line, 0, call.column_codepoint) ELSE call.line

\* the end offsets of the hits of the filetype's patterns inside the searched line
HitEnds ==
    IF call.filetype \notin DOMAIN call.table THEN {}
    ELSE UNION { {find_iter(Regex_new(call.table[call.filetype][m]), SearchedLine, 0)[h][2] :
                      h \in 1..Len(find_iter(Regex_new(call.table[call.filetype][m]),
                                             SearchedLine, 0))} :
                 m \in 1..Len(call.table[call.filetype]) }

C18_WitnessBeforeStart ==
    /\ ret # <<>>
    /\ ret[1].kind = "Ok"
    /\ HitEnds # {}
    /\ \A e \in HitEnds : e < call.start_codepoint
    /\ call.column_codepoint < Len(call.line)
    /\ ret[1].value[1] = FALSE

(***************************************************************************)
(* core/character.rs: smartcaseeq on Characters built by Character::new    *)
(***************************************************************************)
\* one grapheme each: e, e-acute, E, E-acute (precomposed and decomposed),
\* a, A, underscore, space
GraphemePool ==
    { <<101>>, <<233>>, <<69>>, <<201>>, <<101, 769>>, <<69, 769>>,
      <<97>>, <<65>>, <<95>>, <<32>> }

CharInit ==
    /\ call \in [query : GraphemePool, candidate : GraphemePool]
    /\ ret = <<>>
    /\ RankIdle
    /\ DispIdle
    /\ LspIdle
    /\ SrvIdle

\* Character::new(query).smartcaseeq(&Character::new(candidate))
CallSmartcaseeq ==
    Return("smartcaseeq",
           Ok(smartcaseeq(Character_new(call.query), Character_new(call.candidate))))

CharNext == CallSmartcaseeq

CharSpec == CharInit /\ [][CharNext]_vars

\* the graphemes that are upper case, and those that carry an accent
IsUpperGrapheme(g) == g[1] \in {69, 201}
IsAccentedGrapheme(g) == g[1] \in {233, 201} \/ Len(g) = 2

\* C20: among e, e-acute, E, E-acute the query e matches all four, the query E
\* matches exactly E and E-acute, and the query e-acute matches exactly
\* e-acute and E-acute
C20_SmartBaseMatching ==
    (ret # <<>> /\ {call.query[1], call.candidate[1]} \subseteq {101, 233, 69, 201}
        /\ call.query # <<201>> /\ call.query # <<69, 769>>) =>
        ret[1].value[1] =
            /\ IsUpperGrapheme(call.query) => IsUpperGrapheme(call.candidate)
            /\ IsAccentedGrapheme(call.query) => IsAccentedGrapheme(call.candidate)

(***************************************************************************)
(* core/utils/identifier.rs: remove_identifier_free_text                   *)
(***************************************************************************)
\* one alternative of a comment-and-string regex: an optional leading char
\* that is no backslash, then the capture group: an opener, a lazy repetition
\* of items and a closer (the empty closer stands for "$"); an item is a
\* literal, or any char but the newline
Lit(s) == [lit |-> s, any |-> 0]
AnyChar == [lit |-> <<>>, any |-> 1]
C_STYLE_COMMENT ==
    [lead |-> FALSE, open |-> <<47, 42>>, items |-> <<Lit(<<10>>), AnyChar>>, close |-> <<42, 47>>]
CPP_STYLE_COMMENT ==
    [lead |-> FALSE, open |-> <<47, 47>>, items |-> <<AnyChar>>, close |-> <<>>]
PYTHON_STYLE_COMMENT ==
    [lead |-> FALSE, open |-> <<35>>, items |-> <<AnyChar>>, close |-> <<>>]
QuotedString(q) ==
    [lead |-> TRUE, open |-> <<q>>,
     items |-> <<Lit(<<92, 92>>), Lit(<<92, q>>), AnyChar>>, close |-> <<q>>]
SINGLE_QUOTE_STRING == QuotedString(39)
DOUBLE_QUOTE_STRING == QuotedString(34)
BACK_QUOTE_STRING == QuotedString(96)
MULTILINE_SINGLE_QUOTE_STRING ==
    [lead |-> FALSE, open |-> <<39, 39, 39>>, items |-> <<Lit(<<10>>), AnyChar>>,
     close |-> <<39, 39, 39>>]
MULTILINE_DOUBLE_QUOTE_STRING ==
    [lead |-> FALSE, open |-> <<34, 34, 34>>, items |-> <<Lit(<<10>>), AnyChar>>,
     close |-> <<34, 34, 34>>]

\* get_comments_and_strings_re_for_ftype: the alternatives, in order
get_comments_and_strings_re_for_ftype(filetype) ==
    LET cpp == <<C_STYLE_COMMENT, CPP_STYLE_COMMENT, SINGLE_QUOTE_STRING, DOUBLE_QUOTE_STRING>>
        t == IF filetype = <<>> THEN "" ELSE filetype[1]
    IN  IF t \in {"cpp", "c", "cuda", "objc", "objcpp", "javascript", "typesript"} THEN cpp
        ELSE IF t = "go" THEN cpp \o <<BACK_QUOTE_STRING>>
        ELSE IF t = "python"
        THEN <<PYTHON_STYLE_COMMENT, MULTILINE_SINGLE_QUOTE_STRING,
               MULTILINE_DOUBLE_QUOTE_STRING, SINGLE_QUOTE_STRING, DOUBLE_QUOTE_STRING>>
        ELSE IF t = "rust" THEN <<CPP_STYLE_COMMENT, SINGLE_QUOTE_STRING, DOUBLE_QUOTE_STRING>>
        ELSE <<C_STYLE_COMMENT, CPP_STYLE_COMMENT, PYTHON_STYLE_COMMENT, SINGLE_QUOTE_STRING,
               DOUBLE_QUOTE_STRING, BACK_QUOTE_STRING, MULTILINE_SINGLE_QUOTE_STRING,
               MULTILINE_DOUBLE_QUOTE_STRING>>

\* s occurs in text at offset pos
LitAt(text, pos, s) == pos + Len(s) <= Len(text) /\ SubSeq(text, pos + 1, pos + Len(s)) = s

\* the number of chars an item takes at offset pos (0: it does not match)
ItemLen(text, pos, item) ==
    IF item.any = 0 THEN (IF LitAt(text, pos, item.lit) THEN Len(item.lit) ELSE 0)
    ELSE IF pos < Len(text) /\ text[pos + 1] # 10 THEN 1
    ELSE 0

\* the closer at offset pos; "$" with multi_line: the end of text or of a line
CloseAt(text, pos, alt) ==
    IF alt.close = <<>> THEN pos = Len(text) \/ text[pos + 1] = 10
    ELSE LitAt(text, pos, alt.close)

\* the lazy repetition followed by the closer, in the order a backtracking
\* matcher tries: the closer first, then one more item, the k-th on
RECURSIVE LazyBody(_, _, _, _)
LazyBody(text, pos, alt, k) ==
    IF k = 0
    THEN IF CloseAt(text, pos, alt) THEN Some(pos + Len(alt.close))
         ELSE LazyBody(text, pos, alt, 1)
    ELSE IF k > Len(alt.items) THEN <<>>
    ELSE LET n == ItemLen(text, pos, alt.items[k])
             r == IF n > 0 THEN LazyBody(text, pos + n, alt, 0) ELSE <<>>
         IN  IF r # <<>> THEN r ELSE LazyBody(text, pos, alt, k + 1)

\* one alternative at offset pos: Option of [start, group, end]
AltMatch(text, pos, alt) ==
    LET g == IF alt.lead THEN pos + 1 ELSE pos
        ok == (alt.lead => pos < Len(text) /\ text[pos + 1] # 92) /\ LitAt(text, g, alt.open)
        e == IF ok THEN LazyBody(text, g + Len(alt.open), alt, 0) ELSE <<>>
    IN  IF e = <<>> THEN <<>> ELSE Some([start |-> pos, group |-> g, end |-> Unwrap(e)])

\* the leftmost match from offset pos on, the first alternative that matches there
RECURSIVE Regex_captures_at(_, _, _, _)
Regex_captures_at(text, pos, re, k) ==
    IF pos >= Len(text) THEN <<>>
    ELSE IF k > Len(re) THEN Regex_captures_at(text, pos + 1, re, 1)
    ELSE LET m == AltMatch(text, pos, re[k])
         IN  IF m # <<>> THEN m ELSE Regex_captures_at(text, pos, re, k + 1)

\* a replacement that drops the blanked span
NoLines(n) == <<>>

\* std::iter::repeat("\n").take(n)
EmptyLines(n) == [i \in 1..n |-> 10]

\* replace_with_empty_lines for the one group that took part in the match;
\* caps.len() is the number of groups plus one, and every alternative is a group
replace_with_empty_lines(text, re, m) ==
    LET whole == SubSeq(text, m.start + 1, m.end)
        c == SubSeq(text, m.group + 1, m.end)
    IN  IF Len(re) + 1 = 1 THEN EmptyLines(Len(str_lines(whole)) - 1)
        ELSE IF m.start < m.group
        THEN SubSeq(whole, 1, m.group - m.start) \o EmptyLines(Len(str_lines(c)) - 1)
        ELSE EmptyLines(Len(str_lines(c)) - 1)

\* Regex::replace_all from offset pos on
RECURSIVE replace_all(_, _, _)
replace_all(text, pos, re) ==
    LET m == Regex_captures_at(text, pos, re, 1)
    IN  IF m = <<>> THEN SubSeq(text, pos + 1, Len(text))
        ELSE SubSeq(text, pos + 1, Unwrap(m).start)
                 \o replace_with_empty_lines(text, re, Unwrap(m))
                 \o replace_all(text, Unwrap(m).end, re)

\* remove_identifier_free_text
remove_identifier_free_text(text, filetype) ==
    replace_all(text, 0, get_comments_and_strings_re_for_ftype(filetype))

\* the characters source texts are built from: a newline / * # ' \
SourceAlphabet == {<<97>>, <<10>>, <<47>>, <<42>>, <<35>>, <<39>>, <<92>>}

FreeTextInit ==
    /\ call \in [ text : Strings(SourceAlphabet, MaxChars + 2),
                  filetype : {<<>>, <<"python">>, <<"rust">>} ]
    /\ ret = <<>>
    /\ RankIdle
    /\ DispIdle
    /\ LspIdle
    /\ SrvIdle

\* one call of remove_identifier_free_text
CallRemoveIdentifierFreeText ==
    Return("remove_identifier_free_text",
           Ok(remove_identifier_free_text(call.text, call.filetype)))

FreeTextNext == CallRemoveIdentifierFreeText

FreeTextSpec == FreeTextInit /\ [][FreeTextNext]_vars

\* the newlines of a text before offset n
NewlinesBefore(text, n) == Cardinality({i \in 1..n : text[i] = 10})

\* C21: remove_identifier_free_text returns a text with exactly as many
\* newlines as its input
C21_LineCountPreserved ==
    ret # <<>> =>
        NewlinesBefore(ret[1].value[1], Len(ret[1].value[1]))
            = NewlinesBefore(call.text, Len(call.text))

\* a comment that spans two lines was blanked: the text got shorter and kept
\* its newline
C21_Witness ==
    /\ ret # <<>>
    /\ call.text = <<47, 42, 10, 42, 47>>
    /\ call.filetype = <<>>
    /\ ret[1].value[1] = <<10>>

(***************************************************************************)
(* core/candidate.rs: the scores matches_query reports                     *)
(***************************************************************************)
\* the embeddings of q in c as increasing maps of 1-based positions
Embeddings(q, c) ==
    {f \in [1..Len(q) -> 1..Len(c)] :
        /\ \A i, j \in 1..Len(q) : i < j => f[i] < f[j]
        /\ \A i \in 1..Len(q) : smartcaseeq(q[i], c[f[i]])}

\* the leftmost embedding: no embedding places any grapheme further left
LeftmostEmbedding(q, c) ==
    CHOOSE f \in Embeddings(q, c) : \A g \in Embeddings(q, c) : \A i \in 1..Len(q) : f[i] <= g[i]

RECURSIVE IndexSum(_, _)
IndexSum(f, n) == IF n = 0 THEN 0 ELSE (f[n] - 1) + IndexSum(f, n - 1)

\* C24: for a candidate the query is reported a subsequence of,
\* char_match_index_sum is the sum of the 0-based candidate indices of the
\* leftmost embedding (0 for the empty query) and query_is_prefix holds exactly
\* when that embedding occupies the indices 0..|q|-1; for any other candidate
\* the result is the default record
C24_MatchScores ==
    LET S == Scored
        q == TheQuery.characters
        cv == CandidateVec
    IN  \A i \in 1..Len(candidates) :
           IF S[i].is_subsequence
           THEN /\ Embeddings(q, cv[i].characters) # {}
                /\ LET f == LeftmostEmbedding(q, cv[i].characters)
                   IN  /\ S[i].char_match_index_sum = IndexSum(f, Len(q))
                       /\ S[i].query_is_prefix <=> \A k \in 1..Len(q) : f[k] = k
           ELSE [S[i] EXCEPT !.ref = 0] = QueryResult_default

\* "ab" scored against "bab" (indices 1 and 2, not a prefix), "ab" (indices 0
\* and 1, a prefix) and "BA" (no subsequence)
C24_Witness ==
    /\ query = T_ab
    /\ candidates = <<T_bab, T_ab, T_BA>>
    /\ LET S == Scored
       IN  /\ S[1].is_subsequence /\ S[1].char_match_index_sum = 3 /\ ~S[1].query_is_prefix
           /\ S[2].is_subsequence /\ S[2].char_match_index_sum = 1 /\ S[2].query_is_prefix
           /\ ~S[3].is_subsequence

(***************************************************************************)
(* completer/lsp/transport.rs: the reader task over the bytes of stream_in *)
(***************************************************************************)
MaxStreamFrames == 2

\* payloads the server frames: a Call with a newline in it, a Call, an Output
\* and an empty payload
Payloads == {<<99, 10>>, <<99>>, <<111>>, <<>>}

\* serde_json::from_slice::<Output>, then ::<Call>, on a payload; the first byte
\* of a payload stands for the shape of its JSON
PayloadKind(content) ==
    IF content # <<>> /\ content[1] = 111 THEN "Output"
    ELSE IF content # <<>> /\ content[1] = 99 THEN "Call"
    ELSE "Invalid"

\* usize::to_string
RECURSIVE to_string(_)
to_string(n) == IF n < 10 THEN <<48 + n>> ELSE to_string(n \div 10) \o <<48 + (n % 10)>>

\* "Content-Length: "
CONTENT_LENGTH == <<67, 111, 110, 116, 101, 110, 116, 45, 76, 101, 110, 103, 116, 104>>

\* one frame as the server writes it: Content-Length: n CRLF CRLF payload
Encode(content) ==
    CONTENT_LENGTH \o <<58, 32>> \o to_string(Len(content)) \o <<13, 10, 13, 10>> \o content

RECURSIVE ByteStream(_)
ByteStream(frames) ==
    IF frames = <<>> THEN <<>> ELSE Encode(Head(frames)) \o ByteStream(Tail(frames))

\* iter().position(|x| *x == b) in buf[from..], as an index into buf; -1 is None
RECURSIVE position(_, _, _)
position(buf, from, b) ==
    IF from >= Len(buf) THEN -1
    ELSE IF buf[from + 1] = b THEN from
    ELSE position(buf, from + 1, b)

\* str::trim on ASCII spaces
RECURSIVE trim(_)
trim(s) ==
    IF s # <<>> /\ Head(s) = 32 THEN trim(Tail(s))
    ELSE IF s # <<>> /\ s[Len(s)] = 32 THEN trim(SubSeq(s, 1, Len(s) - 1))
    ELSE s

\* str::parse::<usize>: None unless every byte is a digit
RECURSIVE parse_digits(_, _)
parse_digits(s, acc) ==
    IF s = <<>> THEN acc
    ELSE parse_digits(Tail(s), 10 * acc + (Head(s) - 48))

parse(s) ==
    IF s = <<>> \/ \E i \in 1..Len(s) : s[i] \notin 48..57 THEN <<>>
    ELSE <<parse_digits(s, 0)>>

\* HashMap::insert and HashMap::get on a set of name and value pairs
HashMap_insert(h, name, value) ==
    {e \in h : e.name # name} \cup {[name |-> name, value |-> value]}

HashMap_get(h, name) ==
    IF \E e \in h : e.name = name
    THEN <<(CHOOSE e \in h : e.name = name).value>>
    ELSE <<>>

\* a split_to that loses what follows the part split off
BytesMut_drop_rest(buf, n) == <<>>

\* what BytesMut::split_to(n) leaves in the buffer
BytesMut_rest(buf, n) == Slice(buf, n, Len(buf))

\* the reader task from a point where it holds all it needs up to the next
\* read_buf, its return or its panic; pc is "scan" at the top of the header
\* loop, "poll" at the read of the header loop, "length" behind the header loop
\* and "fill" at the body loop
RECURSIVE Reader_run(_)
Reader_run(r) ==
    CASE r.pc = "scan" ->
            LET newline_index == position(r.buf, r.last_checked_index, 10)
            IN  IF newline_index = -1
                THEN Reader_run([r EXCEPT !.last_checked_index = Len(r.buf), !.pc = "poll"])
                \* newline_index - 1 on a usize
                ELSE IF newline_index = 0 THEN [r EXCEPT !.pc = "panicked"]
                ELSE LET value == Slice(r.buf, 0, newline_index - 1)
                         rest == BytesMut_rest(r.buf, newline_index + 1)
                         sep_index == position(value, 0, 58)
                     IN  IF value = <<>>
                         THEN Reader_run([r EXCEPT !.buf = rest,
                                                   !.last_checked_index = 0,
                                                   !.pc = "length"])
                         ELSE IF sep_index = -1 THEN [r EXCEPT !.pc = "panicked"]
                         ELSE Reader_run(
                                 [r EXCEPT !.buf = rest,
                                           !.last_checked_index = 0,
                                           !.headers = HashMap_insert(r.headers,
                                                          Slice(value, 0, sep_index),
                                                          Slice(value, sep_index + 1, Len(value))),
                                           !.pc = "poll"])
      [] r.pc = "poll" ->
            IF r.last_checked_index >= Len(r.buf)
            THEN [r EXCEPT !.pc = "headers"]
            ELSE Reader_run([r EXCEPT !.pc = "scan"])
      [] r.pc = "length" ->
            LET header == HashMap_get(r.headers, CONTENT_LENGTH)
                content_len == IF IsSome(header) THEN parse(trim(Unwrap(header))) ELSE <<>>
            IN  IF content_len = <<>> THEN [r EXCEPT !.pc = "panicked"]
                ELSE Reader_run([r EXCEPT !.content_len = Unwrap(content_len), !.pc = "fill"])
      [] r.pc = "fill" ->
            IF Len(r.buf) < r.content_len
            THEN [r EXCEPT !.pc = "body"]
            ELSE LET content == Slice(r.buf, 0, r.content_len)
                 IN  Reader_run(
                        [r EXCEPT !.headers = {},
                                  !.buf = BytesMut_rest(r.buf, r.content_len),
                                  !.content_len = 0,
                                  !.last_checked_index = 0,
                                  !.decoded = Append(r.decoded, content),
                                  !.incoming = IF PayloadKind(content) = "Call"
                                               THEN Append(r.incoming, content)
                                               ELSE r.incoming,
                                  !.pc = "scan"])

\* the reader task as spawned: empty buffer, no headers
Reader_spawn ==
    Reader_run([pc |-> "scan", pos |-> 0, buf |-> <<>>, last_checked_index |-> 0,
                headers |-> {}, content_len |-> 0, decoded |-> <<>>, incoming |-> <<>>,
                spins |-> 0])

FrameLists == UNION {[1..n -> Payloads] : n \in 0..MaxStreamFrames}

\* the server writes the first len bytes of a sequence of frames and closes
\* its end of the pipe
WireInit ==
    /\ call \in {[frames |-> fs, stream |-> ByteStream(fs), len |-> l] :
                    fs \in FrameLists, l \in 0..(MaxStreamFrames * (Len(Encode(<<99, 10>>))))}
    /\ call.len <= Len(call.stream)
    /\ ret = <<Reader_spawn>>
    /\ RankIdle
    /\ DispIdle
    /\ LspIdle
    /\ SrvIdle

\* stream_in.read_buf(&mut buf) completes with n more bytes, 0 at end of file,
\* and the task runs on to its next read
ReaderRead(n) ==
    /\ ret # <<>>
    /\ LET r == ret[1]
       IN  /\ r.pc \in {"headers", "body"}
           /\ n <= call.len - r.pos
           /\ n = 0 <=> r.pos = call.len
           /\ ret' = <<IF n = 0
                       THEN IF r.pc = "headers"
                            THEN [r EXCEPT !.pc = "returned"]
                            \* while buf.len() < content_len: the read is issued again
                            ELSE [r EXCEPT !.spins = 1 - r.spins]
                       ELSE Reader_run(
                               [r EXCEPT !.pos = r.pos + n,
                                         !.buf = r.buf \o SubSeq(call.stream, r.pos + 1, r.pos + n),
                                         !.pc = IF r.pc = "headers" THEN "scan" ELSE "fill"])>>
    /\ UNCHANGED <<call, rankVars, dispVars, lspVars, srvVars>>

WireNext == \E n \in 0..(MaxStreamFrames * (Len(Encode(<<99, 10>>)))) : ReaderRead(n)

WireSpec == WireInit /\ [][WireNext]_vars

\* the frames that lie whole within the first n bytes of the stream
RECURSIVE FramesWithin(_, _)
FramesWithin(frames, n) ==
    IF frames = <<>> \/ Len(Encode(Head(frames))) > n THEN <<>>
    ELSE <<Head(frames)>> \o FramesWithin(Tail(frames), n - Len(Encode(Head(frames))))

RECURSIVE Calls(_)
Calls(frames) ==
    IF frames = <<>> THEN <<>>
    ELSE (IF PayloadKind(Head(frames)) = "Call" THEN <<Head(frames)>> ELSE <<>>)
            \o Calls(Tail(frames))

\* C23: whatever the reads were, the reader has decoded exactly the frames
\* that lie whole within the bytes read so far, one message of n payload bytes
\* per frame, the bytes behind a frame are kept for the next one, and the calls
\* and notifications are on the incoming channel in their order of arrival
C23_FramingIndependentOfReads ==
    LET r == ret[1]
    IN  /\ r.pc \in {"headers", "body", "returned"}
        /\ r.decoded = FramesWithin(call.frames, r.pos)
        /\ r.incoming = Calls(r.decoded)
        /\ Len(ByteStream(r.decoded)) + Len(r.buf) <= r.pos
        /\ r.buf = SubSeq(call.stream, r.pos - Len(r.buf) + 1, r.pos)

\* the first frame has been decoded and the bytes read behind it, the start
\* of the second frame's header line, are held in the buffer
C23_Witness ==
    /\ call.frames = <<<<99, 10>>, <<99>>>>
    /\ ret[1].pc = "headers"
    /\ ret[1].decoded = <<<<99, 10>>>>
    /\ ret[1].incoming = <<<<99, 10>>>>
    /\ ret[1].buf = <<67, 111, 110>>
    /\ ret[1].last_checked_index = 3

\* C29: a read that meets the end of stream_in is the reader task's last step,
\* wherever in a frame the stream ended: between two frames, inside the
\* headers or inside a body shorter than its Content-Length
C29_ReaderTerminatesOnEof ==
    [][(ret[1].pos = call.len /\ ret' # ret) => ret'[1].pc = "returned"]_vars

(***************************************************************************)
(* completer/filename.rs: FilenameCompleter::search_path                   *)
(***************************************************************************)
\* '/', 'a' and '.'; no '$' and no '~', so that utils::expand_vars leaves every
\* path as it is
PathAlphabet == {<<47>>, <<97>>, <<46>>}

\* PATH_SEPARATORS_REGEX.find_iter on unix, "([/][^/]*|[/]$)": one match per
\* '/', running up to the next '/' or the end of the text
RECURSIVE PATH_SEPARATORS_REGEX_find_iter(_, _)
PATH_SEPARATORS_REGEX_find_iter(text, pos) ==
    IF pos >= Len(text) THEN <<>>
    ELSE IF text[pos + 1] # 47 THEN PATH_SEPARATORS_REGEX_find_iter(text, pos + 1)
    ELSE LET ends == {e \in (pos + 1)..Len(text) :
                         /\ \A k \in (pos + 2)..e : text[k] # 47
                         /\ e = Len(text) \/ text[e + 1] = 47}
             end == CHOOSE e \in ends : TRUE
         IN  <<[start |-> pos, end |-> end]>> \o PATH_SEPARATORS_REGEX_find_iter(text, end)

\* the language of HEAD_PATTERN and the names of the working directory between
\* "(" and ")$"
HeadLanguage(s, entries) ==
    \/ s \in {<<46>>, <<46, 46>>, <<126>>}
    \/ Len(s) >= 2 /\ s[1] = 36 /\ \A k \in 2..Len(s) : s[k] # 36
    \/ s \in entries

\* get_dir_head_regex(..).find(text): the start of the leftmost match
head_regex_find(text, entries) ==
    LET starts == {s \in 0..Len(text) : HeadLanguage(Slice(text, s, Len(text)), entries)}
    IN  IF starts = {} THEN <<>>
        ELSE <<CHOOSE s \in starts : \A t \in starts : s <= t>>

\* str::trim_matches(|c| PATH_SEPARATORS.contains(c)) leaves nothing
OnlySeparators(path) == \A k \in 1..Len(path) : path[k] = 47

\* the path one earlier separator match stands for: relative to the working
\* directory behind a head, else rooted at the separator; none for separators
\* alone
Interpretation(current_line, m, last_match_start, working_dir, entries) ==
    LET head_match == head_regex_find(Slice(current_line, 0, m.start), entries)
    IN  IF IsSome(head_match)
        THEN LET path == Slice(current_line, Unwrap(head_match), last_match_start)
             IN  IF path = <<>> \/ path[1] # 47
                 THEN <<working_dir \o <<47>> \o path>>
                 ELSE <<path>>
        ELSE LET path == Slice(current_line, m.start, last_match_start)
             IN  IF OnlySeparators(path) THEN <<>> ELSE <<path>>

\* matches.len() behind matches.pop()
CountEarlier(matches) == Len(matches)

\* the for loop of search_path over the earlier matches, then the root
RECURSIVE search_loop(_, _, _, _, _, _, _)
search_loop(current_line, matches, k, last_match_start, working_dir, entries, existing) ==
    IF k > Len(matches)
    THEN IF CountEarlier(matches) = 1 THEN <<[path |-> <<47>>, start |-> last_match_start + 1]>>
         ELSE <<>>
    ELSE LET path == Interpretation(current_line, matches[k], last_match_start,
                                    working_dir, entries)
         IN  IF IsSome(path) /\ Unwrap(path) \in existing
             THEN <<[path |-> Unwrap(path), start |-> last_match_start + 1]>>
             ELSE search_loop(current_line, matches, k + 1, last_match_start, working_dir,
                              entries, existing)

\* FilenameCompleter::search_path
search_path(req) ==
    LET current_line == SimpleRequest_prefix(req.request)
    IN  IF current_line.kind = "Panic" THEN Panic
        ELSE LET matches == PATH_SEPARATORS_REGEX_find_iter(current_line.value[1], 0)
             IN  IF matches = <<>> THEN Ok(<<>>)
                 ELSE Ok(search_loop(current_line.value[1],
                                     SubSeq(matches, 1, Len(matches) - 1), 1,
                                     matches[Len(matches)].start,
                                     req.working_dir, req.entries, req.existing))

\* the paths of the file system the search may meet
PathPool == {<<47, 119, 47, 46, 47, 97>>, <<47, 119, 47, 97, 47, 97>>, <<47, 97>>}

\* a request on a one-line file in the directory /w, the names list_dir finds
\* there and the paths that exist
SearchInit ==
    /\ call \in [ request : [ file_data : {Some([filetypes |-> <<>>, contents |-> s]) :
                                              s \in Strings(PathAlphabet, MaxChars + 2)},
                              line_num : {1},
                              column_num : 1..(MaxChars + 3),
                              min_num_chars : {1} ],
                  working_dir : {<<47, 119>>},
                  entries : {{}, {<<97>>}},
                  existing : SUBSET PathPool ]
    /\ ret = <<>>
    /\ RankIdle
    /\ DispIdle
    /\ LspIdle
    /\ SrvIdle

CallSearchPath == Return("search_path", search_path(call))

SearchNext == CallSearchPath

SearchSpec == SearchInit /\ [][SearchNext]_vars

\* the separator matches of the prefix of the request
SeparatorMatches == PATH_SEPARATORS_REGEX_find_iter(SimpleRequest_prefix(call.request).value[1], 0)

\* some earlier separator match stands for a path that exists
SomeInterpretationExists ==
    LET p == SimpleRequest_prefix(call.request).value[1]
        ms == SeparatorMatches
    IN  \E k \in 1..(Len(ms) - 1) :
           LET path == Interpretation(p, ms[k], ms[Len(ms)].start, call.working_dir, call.entries)
           IN  IsSome(path) /\ Unwrap(path) \in call.existing

\* C25: search_path returns none for a prefix without a separator match; when
\* no interpretation yields an existing path it returns the root directory iff
\* the prefix holds exactly one separator match, none with two or more; and
\* the start column of whatever it returns is last.start + 1
C25_SearchPathResult ==
    (ret # <<>> /\ ret[1].fn = "search_path" /\ ret[1].kind = "Ok") =>
        LET ms == SeparatorMatches
            result == ret[1].value[1]
        IN  /\ ms = <<>> => result = <<>>
            /\ (ms # <<>> /\ ~SomeInterpretationExists) =>
                  IF Len(ms) = 1
                  THEN result = <<[path |-> <<47>>, start |-> ms[1].start + 1]>>
                  ELSE result = <<>>
            /\ IsSome(result) => Unwrap(result).start = ms[Len(ms)].start + 1

(***************************************************************************)
(* completer/mod.rs: should_use_now and the dispatcher                     *)
(***************************************************************************)
\* UltisnipsCompleter::should_use_now on a dispatcher request: the query is
\* line_value()[start_column()..=column_num - 2], so column_num - start_column
\* is the length of the query and one
UltisnipsCompleter_should_use_now_on(req) ==
    query_length_above_min_threshold(0, Len(req.query) + 1, config.min_num_chars)

\* C26: every candidate of a response comes from a completer whose
\* should_use_now is true for the request: a snippet candidate only with a
\* query that reaches min_num_chars, a filename candidate only with a filetype
\* that is not blacklisted and a search path
C26_OnlyCompletersInUse ==
    IsSome(request) =>
        \A i \in 1..Len(response) :
            /\ IsSnippetCandidate(response[i])
                  => UltisnipsCompleter_should_use_now_on(Unwrap(request))
            /\ IsFilenameCandidate(response[i])
                  => FilenameCompleter_should_use_now(Unwrap(request))

\* the bytes of a filetype name, as the keys of the trigger table hold them
as_bytes(filetype) == IF filetype = "c" THEN F_c ELSE IF filetype = "o" THEN F_o ELSE <<120>>

\* Completer::should_use_now and should_use_now_inner as the trait provides
\* them; supported_filetypes() is empty, so the filetype is filetypes[0]
Completer_should_use_now(req, table) ==
    LET filetypes == SimpleRequest_filetypes(req)
    IN  IF filetypes = <<>> THEN Ok(FALSE)
        ELSE LET line == SimpleRequest_line_value(req)
                 start == SimpleRequest_start_column(req)
             IN  IF line.kind = "Panic" \/ start.kind = "Panic" THEN Panic
                 ELSE matches_for_filetype(table, as_bytes(filetypes[1]), line.value[1],
                                           start.value[1], req.column_num)

\* a completer with a trigger table asked about a request on a one-line file
UseNowInit ==
    /\ call \in [ request : [ file_data : {Some([filetypes |-> f, contents |-> s]) :
                                              f \in {<<>>, <<"c">>, <<"x", "c">>},
                                              s \in Strings(LineAlphabet, MaxChars)},
                              line_num : {1},
                              column_num : 1..(MaxChars + 2),
                              min_num_chars : {1} ],
                  table : TriggerTables ]
    /\ ret = <<>>
    /\ RankIdle
    /\ DispIdle
    /\ LspIdle
    /\ SrvIdle

CallCompleterShouldUseNow ==
    Return("Completer::should_use_now", Completer_should_use_now(call.request, call.table))

UseNowNext == CallCompleterShouldUseNow

UseNowSpec == UseNowInit /\ [][UseNowNext]_vars

\* the end offsets of the hits of the patterns of the request's first filetype
\* in the first n bytes of its line
HitEndsWithin(n) ==
    LET line == SimpleRequest_line_value(call.request).value[1]
        text == Slice(line, 0, IF n < Len(line) THEN n ELSE Len(line))
        key == as_bytes(SimpleRequest_filetypes(call.request)[1])
    IN  IF key \notin DOMAIN call.table THEN {}
        ELSE UNION { {find_iter(Regex_new(call.table[key][m]), text, 0)[h][2] :
                          h \in 1..Len(find_iter(Regex_new(call.table[key][m]), text, 0))} :
                     m \in 1..Len(call.table[key]) }

\* C27: the default should_use_now is true only if a trigger hit ends at a
\* byte offset e with start_column <= e <= column_num - 1, the 0-based offset
\* of the cursor: a hit that takes in the byte at the cursor does not fire
C27_TriggerBeforeCursor ==
    (ret # <<>> /\ ret[1].fn = "Completer::should_use_now" /\ ret[1].kind = "Ok"
       /\ ret[1].value[1] = TRUE) =>
        \E e \in HitEndsWithin(call.request.column_num - 1)
                    \cup HitEndsWithin(call.request.column_num) :
            /\ SimpleRequest_start_column(call.request).value[1] <= e
            /\ e <= call.request.column_num - 1

====
